---- MODULE Spec2Model ----
(***************************************************************************)
(* Model of the floor-plan generation engine of src/floor_plan_generator.py *)
(* (class Room, class FloorPlanGenerator) and of the requirements record    *)
(* of src/python/ai_house_parser.py (class HouseRequirements).              *)
(*                                                                          *)
(* Representation choices                                                   *)
(*  - requirements.bathrooms is a Python float; the model holds it in       *)
(*    quarters (bathrooms = 10 is 2.5 bathrooms), so int(), "% 1" and the   *)
(*    ">= 0.5" test of _add_bathrooms are computed on quarters.             *)
(*  - a room name is a record [text, num]: f"Bedroom {i + 2}" is            *)
(*    [text |-> "Bedroom #", num |-> i + 2]; names without a number have    *)
(*    num = 0.                                                              *)
(*  - the float arithmetic of the dimension calculator and of the packer    *)
(*    (math.sqrt, *, /, int()) is IEEE 754 double arithmetic, rounding to   *)
(*    nearest, ties to even.  Where the operands are small enough (each     *)
(*    operator states its range) and the real value of an expression under  *)
(*    int() is not a whole number, it is further from the next whole number *)
(*    than the rounding errors reach, so int() is the floor of the real     *)
(*    value and is computed exactly on integers.  Where the real value is a *)
(*    whole number N the doubles can end just below N and int() gives N - 1 *)
(*    (a hallway of 300 sq ft is 3047 mm wide, not 3048), and beyond those  *)
(*    ranges a value close to N can do the same: there the model computes   *)
(*    the doubles themselves, operation by operation.                       *)
(*    92903.04 is 9290304/100.                                              *)
(*  - an exception raised by the code is recorded in the variable error.    *)
(***************************************************************************)
EXTENDS Integers, Sequences, FiniteSets, TLC

VARIABLES
    requirements,   \* FloorPlanGenerator.requirements (a HouseRequirements)
    rooms,          \* FloorPlanGenerator.rooms, in emission order
    error,          \* "none", or the exception the last call raised
    returned,       \* what the last generate_floor_plan call returned
    previous,       \* what the generate_floor_plan call before it returned
    runs,           \* number of generate_floor_plan calls made so far
    dims,           \* last result of get_house_dimensions (<<>>: not called)
    phase,          \* the last step taken ("new": none yet)
    input,          \* self.rooms as it was before the last step
    gens,           \* SpecCalls: the FloorPlanGenerator objects
    calls,          \* SpecCalls: the generate_floor_plan calls in progress
    lists           \* SpecSameGenerator: the list objects, by identity

vars ==
    <<requirements, rooms, error, returned, previous, runs, dims, phase, input,
      gens, calls, lists>>

----------------------------------------------------------------------------
(* Bounds of the model                                                      *)

MaxBedrooms == 3
MaxBathQuarters == 16
MaxGarage == 3
MaxSpecialRooms == 2
MaxRuns == 2
MaxPackRooms == 3

(* Program constants                                                        *)

MaxDimRooms == 2

GAP == 200
MARGIN == 1000
DefaultLength == 10000
DefaultWidth == 8000
SqftToMm2Times100 == 9290304

----------------------------------------------------------------------------
(* Room Category Catalog: FloorPlanGenerator.room_sizes                     *)

room_sizes ==
    [ master_bedroom |-> 300, bedroom |-> 150, bathroom |-> 40,
      jack_and_jill_bathroom |-> 80, master_bathroom |-> 100,
      half_bathroom |-> 25, kitchen |-> 200, living_room |-> 300,
      dining_room |-> 150, garage |-> 250, gameroom |-> 250, den |-> 150,
      office |-> 120, study |-> 120, library |-> 150, media_room |-> 200,
      home_theater |-> 300, gym |-> 200, mudroom |-> 50, laundry |-> 50,
      pantry |-> 30, hallway |-> 50, foyer |-> 80 ]

(* Room.__init__: a room as the Builder creates it, with no geometry.       *)
Room(name, sqft, room_type) ==
    [ name |-> name, sqft |-> sqft, room_type |-> room_type,
      x |-> 0, y |-> 0, width |-> 0, length |-> 0,
      doors |-> <<>>, windows |-> 0 ]

Named(text) == [text |-> text, num |-> 0]
(* The f-string names without their number.                                  *)
Unnumbered(text, n) == [text |-> text, num |-> 0]

Numbered(text, n) == [text |-> text, num |-> n]

WithWindows(room, n) == [room EXCEPT !.windows = n]

(* len(range(n)): a "for i in range(n)" loop runs for i = 0 .. n - 1, and    *)
(* not at all when n <= 0.                                                   *)
RangeLen(n) == IF n > 0 THEN n ELSE 0

(* Python's int() on a float held as k/unit: truncation towards zero.       *)
TruncDiv(k, unit) == IF k >= 0 THEN k \div unit ELSE -((-k) \div unit)

----------------------------------------------------------------------------
(* Room Inventory Builder                                                   *)

(* _add_bedrooms looping over range(bedrooms), one bedroom too many.         *)
AddBedroomsOffByOne(req, rs) ==
    LET master == WithWindows(
            Room(Named("Master Bedroom"), room_sizes["master_bedroom"],
                 "master_bedroom"), 2)
        bedroom(i) == WithWindows(
            Room(Numbered("Bedroom #", i + 2), room_sizes["bedroom"],
                 "bedroom"), 1)
    IN  Append(rs, master)
          \o [i \in 1..RangeLen(req.bedrooms) |-> bedroom(i - 1)]

(* _add_bedrooms emitting the master bedroom only when bedrooms are asked.   *)
AddBedroomsIfAny(req, rs) ==
    LET master == WithWindows(
            Room(Named("Master Bedroom"), room_sizes["master_bedroom"],
                 "master_bedroom"), 2)
        bedroom(i) == WithWindows(
            Room(Numbered("Bedroom #", i + 2), room_sizes["bedroom"],
                 "bedroom"), 1)
    IN  IF req.bedrooms >= 1
        THEN Append(rs, master)
               \o [i \in 1..RangeLen(req.bedrooms - 1) |-> bedroom(i - 1)]
        ELSE rs

_add_bedrooms(req, rs) ==
    LET master == WithWindows(
            Room(Named("Master Bedroom"), room_sizes["master_bedroom"],
                 "master_bedroom"), 2)
        bedroom(i) == WithWindows(
            Room(Numbered("Bedroom #", i + 2), room_sizes["bedroom"],
                 "bedroom"), 1)
    IN  Append(rs, master)
          \o [i \in 1..RangeLen(req.bedrooms - 1) |-> bedroom(i - 1)]

(* A half bath for any fractional part.                                      *)
HalfBathForAnyFraction(bathrooms) == IF bathrooms % 4 > 0 THEN 1 ELSE 0

(* half_bath_count = 1 if (bathrooms % 1 >= 0.5) else 0, on quarters.        *)
half_bath_count(bathrooms) == IF bathrooms % 4 >= 2 THEN 1 ELSE 0

_add_bathrooms(req, rs) ==
    LET \* req.bathrooms counts quarters: int(bathrooms) is TruncDiv(_, 4)
        bathroom_count == TruncDiv(req.bathrooms, 4)
        master_bath == WithWindows(
            Room(Named("Master Bathroom"), room_sizes["master_bathroom"],
                 "master_bathroom"), 1)
        count1 == bathroom_count - 1
        jnj == "jack_and_jill" \in req.bathroom_types /\ count1 > 0
        jnj_bath == WithWindows(
            Room(Named("Jack and Jill Bathroom"),
                 room_sizes["jack_and_jill_bathroom"],
                 "jack_and_jill_bathroom"), 1)
        count2 == IF jnj THEN count1 - 1 ELSE count1
        bathroom(i) == WithWindows(
            Room(Numbered("Bathroom #", i + 2), room_sizes["bathroom"],
                 "bathroom"), 1)
        half_bath(i) == WithWindows(
            Room(Named("Powder Room"), room_sizes["half_bathroom"],
                 "half_bathroom"), 0)
    IN  Append(rs, master_bath)
          \o (IF jnj THEN <<jnj_bath>> ELSE <<>>)
          \o [i \in 1..RangeLen(count2) |-> bathroom(i - 1)]
          \o [i \in 1..RangeLen(half_bath_count(req.bathrooms)) |->
                 half_bath(i - 1)]

_add_kitchen(req, rs) ==
    LET kitchen == WithWindows(
            Room(Named("Kitchen"), room_sizes["kitchen"], "kitchen"), 2)
        dining == WithWindows(
            Room(Named("Dining Room"), room_sizes["dining_room"],
                 "dining_room"), 1)
    IN  Append(Append(rs, kitchen), dining)

_add_living_areas(req, rs) ==
    Append(rs, WithWindows(
        Room(Named("Living Room"), room_sizes["living_room"],
             "living_room"), 3))

(* _add_garage testing garage_cars >= 0.                                     *)
AddGarageAlways(req, rs) ==
    IF req.garage_cars >= 0
    THEN Append(rs, WithWindows(
             Room(Numbered("# Car Garage", req.garage_cars),
                  room_sizes["garage"] * req.garage_cars, "garage"), 0))
    ELSE rs

_add_garage(req, rs) ==
    IF req.garage_cars > 0
    THEN Append(rs, WithWindows(
             Room(Numbered("# Car Garage", req.garage_cars),
                  room_sizes["garage"] * req.garage_cars, "garage"), 0))
    ELSE rs

(* room_type.replace('_', ' ').title() on the tags of the catalog.          *)
TitleOf(room_type) ==
    CASE room_type = "master_bedroom" -> "Master Bedroom"
      [] room_type = "bedroom" -> "Bedroom"
      [] room_type = "bathroom" -> "Bathroom"
      [] room_type = "jack_and_jill_bathroom" -> "Jack And Jill Bathroom"
      [] room_type = "master_bathroom" -> "Master Bathroom"
      [] room_type = "half_bathroom" -> "Half Bathroom"
      [] room_type = "kitchen" -> "Kitchen"
      [] room_type = "living_room" -> "Living Room"
      [] room_type = "dining_room" -> "Dining Room"
      [] room_type = "garage" -> "Garage"
      [] room_type = "gameroom" -> "Gameroom"
      [] room_type = "den" -> "Den"
      [] room_type = "office" -> "Office"
      [] room_type = "study" -> "Study"
      [] room_type = "library" -> "Library"
      [] room_type = "media_room" -> "Media Room"
      [] room_type = "home_theater" -> "Home Theater"
      [] room_type = "gym" -> "Gym"
      [] room_type = "mudroom" -> "Mudroom"
      [] room_type = "laundry" -> "Laundry"
      [] room_type = "pantry" -> "Pantry"
      [] room_type = "hallway" -> "Hallway"
      [] room_type = "foyer" -> "Foyer"

SpecialRoom(room_type) ==
    WithWindows(
        Room(Named(TitleOf(room_type)), room_sizes[room_type], room_type), 1)

(* The loop of _add_special_rooms stopping at the first unknown tag.         *)
RECURSIVE SpecialRoomsUntilUnknown(_)
SpecialRoomsUntilUnknown(tags) ==
    IF tags = <<>> \/ Head(tags) \notin DOMAIN room_sizes THEN <<>>
    ELSE <<SpecialRoom(Head(tags))>> \o SpecialRoomsUntilUnknown(Tail(tags))

RECURSIVE SpecialRooms(_)
SpecialRooms(tags) ==
    IF tags = <<>> THEN <<>>
    ELSE (IF Head(tags) \in DOMAIN room_sizes
          THEN <<SpecialRoom(Head(tags))>> ELSE <<>>)
         \o SpecialRooms(Tail(tags))

(* _add_special_rooms giving up at the first tag that is not in the catalog. *)
AddSpecialRoomsUntilUnknown(req, rs) ==
    rs \o SpecialRoomsUntilUnknown(req.special_rooms)

_add_special_rooms(req, rs) == rs \o SpecialRooms(req.special_rooms)

(* _add_circulation_spaces with the hallway only above three bedrooms.       *)
AddCirculationHallwayAboveThree(req, rs) ==
    Append(rs, WithWindows(
        Room(Named("Foyer"), room_sizes["foyer"], "foyer"), 0))
      \o (IF req.bedrooms > 3
          THEN <<WithWindows(Room(Named("Hallway"),
                     room_sizes["hallway"], "hallway"), 0)>>
          ELSE <<>>)

_add_circulation_spaces(req, rs) ==
    LET foyer == WithWindows(
            Room(Named("Foyer"), room_sizes["foyer"], "foyer"), 0)
        hallway == WithWindows(
            Room(Named("Hallway"), room_sizes["hallway"], "hallway"), 0)
    IN  Append(rs, foyer)
          \o (IF req.bedrooms >= 3 THEN <<hallway>> ELSE <<>>)

(* generate_floor_plan without the reset of self.rooms.                      *)
KeepRooms(rs) == rs

(* self.rooms = []  at the start of generate_floor_plan.                     *)
ResetRooms(rs) == <<>>

(* Lines 66-75 of generate_floor_plan: the inventory, in emission order.     *)
BuildRooms(req, rs) ==
    _add_circulation_spaces(req,
      _add_special_rooms(req,
        _add_garage(req,
          _add_living_areas(req,
            _add_kitchen(req,
              _add_bathrooms(req,
                _add_bedrooms(req, ResetRooms(rs))))))))

----------------------------------------------------------------------------
(* Exact integer arithmetic for the float expressions of the code           *)

(* floor(a * b / d) for a, b >= 0 and d > 0, without forming a * b.          *)
MulDivFloor(a, b, d) ==
    LET q1 == a \div d
        r1 == a % d
        q2 == b \div d
        r2 == b % d
    IN  q1 * q2 * d + q1 * r2 + r1 * q2 + (r1 * r2) \div d

(* The largest k in lo..hi with k * k <= n  (lo * lo <= n is given).         *)
RECURSIVE IsqrtIn(_, _, _)
IsqrtIn(n, lo, hi) ==
    IF lo >= hi THEN lo
    ELSE LET mid == (lo + hi + 1) \div 2
         IN  IF mid * mid <= n THEN IsqrtIn(n, mid, hi)
             ELSE IsqrtIn(n, lo, mid - 1)

(* int(math.sqrt(n)) for an integer n >= 0.                                  *)
Isqrt(n) == IsqrtIn(n, 0, 46340)

(* a * b mod d for a, b >= 0 and d > 0, without forming a * b.               *)
MulMod(a, b, d) == ((a % d) * (b % d)) % d

----------------------------------------------------------------------------
(* IEEE 754 double arithmetic of the code                                   *)

(* Natural numbers of any size: the sequence of their digits to the base     *)
(* 2^15, least significant first, without leading zero digits.               *)
Digit == 2^15

RECURSIVE Trim(_)
Trim(a) ==
    IF a # <<>> /\ a[Len(a)] = 0 THEN Trim(SubSeq(a, 1, Len(a) - 1)) ELSE a

RECURSIVE Big(_)
Big(n) == IF n = 0 THEN <<>> ELSE <<n % Digit>> \o Big(n \div Digit)

RECURSIVE Small(_)
Small(a) == IF a = <<>> THEN 0 ELSE a[1] + Digit * Small(Tail(a))

DigitAt(a, i) == IF i <= Len(a) THEN a[i] ELSE 0

RECURSIVE AddFrom(_, _, _, _)
AddFrom(a, b, i, carry) ==
    IF i > Len(a) /\ i > Len(b) THEN Big(carry)
    ELSE LET s == DigitAt(a, i) + DigitAt(b, i) + carry
         IN  <<s % Digit>> \o AddFrom(a, b, i + 1, s \div Digit)

BigAdd(a, b) == AddFrom(a, b, 1, 0)

(* a - b for a >= b.                                                         *)
RECURSIVE SubFrom(_, _, _, _)
SubFrom(a, b, i, borrow) ==
    IF i > Len(a) THEN <<>>
    ELSE LET s == a[i] - DigitAt(b, i) - borrow
         IN  <<s % Digit>> \o SubFrom(a, b, i + 1, IF s < 0 THEN 1 ELSE 0)

BigSub(a, b) == Trim(SubFrom(a, b, 1, 0))

(* a * k for 0 <= k <= 2^15.                                                 *)
RECURSIVE TimesFrom(_, _, _, _)
TimesFrom(a, k, i, carry) ==
    IF i > Len(a) THEN Big(carry)
    ELSE LET s == a[i] * k + carry
         IN  <<s % Digit>> \o TimesFrom(a, k, i + 1, s \div Digit)

BigTimes(a, k) == IF k = 0 THEN <<>> ELSE TimesFrom(a, k, 1, 0)

RECURSIVE BigMul(_, _)
BigMul(a, b) ==
    IF a = <<>> \/ b = <<>> THEN <<>>
    ELSE LET rest == BigMul(a, Tail(b))
         IN  BigAdd(BigTimes(a, b[1]),
                    IF rest = <<>> THEN <<>> ELSE <<0>> \o rest)

RECURSIVE LessAt(_, _, _)
LessAt(a, b, i) ==
    IF i = 0 THEN FALSE
    ELSE IF a[i] # b[i] THEN a[i] < b[i]
    ELSE LessAt(a, b, i - 1)

BigLess(a, b) ==
    Len(a) < Len(b) \/ (Len(a) = Len(b) /\ LessAt(a, b, Len(a)))

RECURSIVE SmallBits(_)
SmallBits(n) == IF n = 0 THEN 0 ELSE 1 + SmallBits(n \div 2)

(* The number of binary digits of a.                                         *)
BitLen(a) ==
    IF a = <<>> THEN 0 ELSE 15 * (Len(a) - 1) + SmallBits(a[Len(a)])

(* a * 2^k and floor(a / 2^k).                                               *)
ShiftLeft(a, k) ==
    IF a = <<>> THEN <<>>
    ELSE [i \in 1..(k \div 15) |-> 0] \o BigTimes(a, 2^(k % 15))

ShiftRight(a, k) ==
    IF k \div 15 >= Len(a) THEN <<>>
    ELSE LET d == SubSeq(a, k \div 15 + 1, Len(a))
             p == 2^(k % 15)
         IN  Trim([i \in 1..Len(d) |->
                     (d[i] \div p) + (DigitAt(d, i + 1) % p) * (Digit \div p)])

(* A positive double is [m, e] for the value m * 2^e with 2^52 <= m < 2^53.  *)
(* q * 2^e as a double, for q of 53 binary digits or q = 2^53.               *)
Normal(q, e) ==
    IF BitLen(q) = 54 THEN [m |-> ShiftRight(q, 1), e |-> e + 1]
    ELSE [m |-> q, e |-> e]

(* Whether q goes up by one, r being the part cut off and half its middle.   *)
RoundsUp(q, r, half, sticky) ==
    BigLess(half, r) \/ (r = half /\ (sticky \/ q[1] % 2 = 1))

(* n * 2^e with the last k binary digits of n cut off, q = floor(n / 2^k).   *)
Cut(n, q, k, sticky, e) ==
    Normal(IF RoundsUp(q, BigSub(n, ShiftLeft(q, k)),
                       ShiftLeft(<<1>>, k - 1), sticky)
           THEN BigAdd(q, <<1>>) ELSE q,
           e + k)

(* Round(n, sticky, e) is the double nearest to n * 2^e, ties to even, for   *)
(* n > 0; sticky says that the value is a little more than n * 2^e (n then   *)
(* has more than 53 binary digits).                                          *)
Round(n, sticky, e) ==
    LET len == BitLen(n)
    IN  IF len <= 53
        THEN [m |-> ShiftLeft(n, 53 - len), e |-> e - (53 - len)]
        ELSE Cut(n, ShiftRight(n, len - 53), len - 53, sticky, e)

(* float(i) for an int i > 0.                                                *)
FloatOfInt(i) == Round(Big(i), FALSE, 0)

(* x * y                                                                     *)
FloatMul(x, y) == Round(BigMul(x.m, y.m), FALSE, x.e + y.e)

(* The long division of r by d in binary, for r < d: at each of k steps     *)
(* the remainder is doubled and the quotient q gets its next binary digit.   *)
DivDigit(r2, q, k, d) ==
    IF BigLess(r2, d) THEN [r |-> r2, q |-> BigTimes(q, 2), k |-> k - 1]
    ELSE [r |-> BigSub(r2, d), q |-> BigAdd(BigTimes(q, 2), <<1>>),
          k |-> k - 1]

DivStep(st, d) == DivDigit(BigTimes(st.r, 2), st.q, st.k, d)

RECURSIVE DivSteps(_, _)
DivSteps(st, d) == IF st.k = 0 THEN st ELSE DivSteps(DivStep(st, d), d)

(* The quotient rounded; a remainder left over makes it a little more.       *)
DivRound(st, e) == Round(st.q, st.r # <<>>, e)

(* x / y                                                                     *)
FloatDiv(x, y) ==
    DivRound(DivSteps(IF BigLess(x.m, y.m)
                      THEN [r |-> x.m, q |-> <<>>, k |-> 55]
                      ELSE [r |-> BigSub(x.m, y.m), q |-> <<1>>, k |-> 55],
                      y.m),
             x.e - y.e - 55)

(* The square root of n in binary: at each step s gets the binary digit  *)
(* 2^k when its square stays at most n.                                      *)
SqrtDigit(st, c, n) ==
    [s |-> IF BigLess(n, BigMul(c, c)) THEN st.s ELSE c, k |-> st.k - 1]

SqrtStep(st, n) == SqrtDigit(st, BigAdd(st.s, ShiftLeft(<<1>>, st.k)), n)

RECURSIVE SqrtSteps(_, _)
SqrtSteps(st, n) == IF st.k < 0 THEN st ELSE SqrtSteps(SqrtStep(st, n), n)

(* The root s of n rounded; it is a little more than s when s * s < n.       *)
SqrtRound(s, n, e) == Round(s, BigMul(s, s) # n, e)

(* sqrt(n) * 2^e for n of 107 or 108 binary digits, so that s has 54.        *)
SqrtOf(n, e) == SqrtRound(SqrtSteps([s |-> <<>>, k |-> 53], n).s, n, e)

(* math.sqrt(x)                                                              *)
FloatSqrt(x) ==
    LET k == IF (x.e - 54) % 2 = 0 THEN 54 ELSE 55
    IN  SqrtOf(ShiftLeft(x.m, k), (x.e - k) \div 2)

(* int(x) for a double x of less than 2^31.                                  *)
IntOfFloat(x) ==
    IF x.e >= 0 THEN Small(ShiftLeft(x.m, x.e))
    ELSE Small(ShiftRight(x.m, -x.e))

(* The double of the decimal literal p / q, and of int / int.                *)
Float(p, q) == FloatDiv(FloatOfInt(p), FloatOfInt(q))

(* area_mm2 = room.sqft * 92903.04, and total_sqft * 92903.04, as a double.  *)
area_mm2(sqft) == FloatMul(FloatOfInt(sqft), Float(SqftToMm2Times100, 100))

----------------------------------------------------------------------------
(* Dimension Calculator                                                     *)

(* The aspect ratio of a category as a fraction <<numerator, denominator>>:  *)
(* 1.5, 3.0, 1.2 and the default 1.3.                                        *)
aspect_ratio(room_type) ==
    IF room_type = "garage" THEN <<3, 2>>
    ELSE IF room_type \in {"hallway", "mudroom"} THEN <<3, 1>>
    ELSE IF room_type \in {"master_bedroom", "living_room"} THEN <<6, 5>>
    ELSE <<13, 10>>

(* The largest numbers of the model's integers, and the room areas up to     *)
(* which the exact integer arithmetic below stays within them.               *)
MaxInt == 2147483647
MaxRoot == 46340
ExactWidthSqft == 27000
ExactLengthSqft == 100000000
ExactMaxWidthSqft == 13677

(* room.width = int(math.sqrt(area_mm2 / aspect_ratio)) for room.sqft >= 0,  *)
(* with area_mm2 = room.sqft * 92903.04: the integer square root of the real *)
(* quotient, or what the doubles give where that quotient is a square or     *)
(* the area is beyond ExactWidthSqft.                                        *)
RoomWidth(sqft, room_type) ==
    LET ar == aspect_ratio(room_type)
        x == MulDivFloor(sqft * ar[2], SqftToMm2Times100, 100 * ar[1])
        whole == MulMod(sqft * ar[2], SqftToMm2Times100, 100 * ar[1]) = 0
        w == Isqrt(x)
    IN  IF sqft <= ExactWidthSqft /\ ~(w > 0 /\ whole /\ w * w = x)
        THEN w
        ELSE IntOfFloat(FloatSqrt(FloatDiv(area_mm2(sqft),
                                           Float(ar[1], ar[2]))))

(* room.length = int(area_mm2 / room.width), for room.sqft >= 0 and          *)
(* room.width > 0: the floor of the real quotient, or what the doubles give  *)
(* where it is whole or beyond the exact integer arithmetic.                 *)
RoomLength(sqft, width) ==
    LET d == 100 * width
        r1 == SqftToMm2Times100 % d
        r2 == sqft % d
        inrange == /\ width <= 10000000
                   /\ sqft <= ExactLengthSqft
                   /\ sqft \div width < 23000
                   /\ (r2 = 0 \/ r1 <= MaxInt \div r2)
    IN  IF sqft = 0 THEN 0
        ELSE IF inrange /\ MulMod(SqftToMm2Times100, sqft, d) # 0
        THEN MulDivFloor(SqftToMm2Times100, sqft, d)
        ELSE IntOfFloat(FloatDiv(area_mm2(sqft), FloatOfInt(width)))

(* The loop of _calculate_room_dimensions over rs[i..].  A room of negative  *)
(* area makes math.sqrt raise ValueError at line 198, before room.width is   *)
(* assigned; a room of area 0 gets width 0 and the division by it at line    *)
(* 199 raises ZeroDivisionError.  Either leaves the rooms after it           *)
(* untouched.                                                                *)
RECURSIVE CalcFrom(_, _)
CalcFrom(rs, i) ==
    IF i > Len(rs) THEN [rooms |-> rs, error |-> "none"]
    ELSE IF rs[i].sqft < 0 THEN [rooms |-> rs, error |-> "ValueError"]
    ELSE LET w == RoomWidth(rs[i].sqft, rs[i].room_type)
         IN  IF w = 0
             THEN [rooms |-> [rs EXCEPT ![i].width = 0],
                   error |-> "ZeroDivisionError"]
             ELSE CalcFrom([rs EXCEPT ![i].width = w,
                                      ![i].length = RoomLength(rs[i].sqft, w)],
                           i + 1)

(* _calculate_room_dimensions that assigns nothing.                          *)
DimensionsSkipped(rs) == [rooms |-> rs, error |-> "none"]

_calculate_room_dimensions(rs) == CalcFrom(rs, 1)

----------------------------------------------------------------------------
(* Packer                                                                   *)

(* sorted(self.rooms, key=lambda r: r.sqft, reverse=True) as the sequence    *)
(* of positions in rs: descending by sqft, and the sort is stable, so rooms  *)
(* of equal sqft keep their order in rs.                                     *)
(* The order with rooms of equal sqft reversed (an unstable sort).           *)
BeforeTiesReversed(rs, i, j) ==
    rs[i].sqft > rs[j].sqft \/ (rs[i].sqft = rs[j].sqft /\ i > j)

Before(rs, i, j) ==
    rs[i].sqft > rs[j].sqft \/ (rs[i].sqft = rs[j].sqft /\ i < j)

RECURSIVE InsertSorted(_, _, _)
InsertSorted(rs, order, i) ==
    IF order = <<>> THEN <<i>>
    ELSE IF Before(rs, i, Head(order)) THEN <<i>> \o order
    ELSE <<Head(order)>> \o InsertSorted(rs, Tail(order), i)

RECURSIVE SortedFrom(_, _, _)
SortedFrom(rs, order, i) ==
    IF i > Len(rs) THEN order
    ELSE SortedFrom(rs, InsertSorted(rs, order, i), i + 1)

(* The rooms placed in the order of emission, unsorted.                      *)
EmissionOrder(rs) == [i \in 1..Len(rs) |-> i]

sorted_rooms(rs) == SortedFrom(rs, <<>>, 1)

RECURSIVE SumSqft(_, _)
SumSqft(rs, i) == IF i > Len(rs) THEN 0 ELSE rs[i].sqft + SumSqft(rs, i + 1)

total_area(rs) == SumSqft(rs, 1)

Abs(n) == IF n < 0 THEN -n ELSE n

(* int(d * scale_factor) rounded up instead of truncated.                    *)
ScaleDimRoundUp(d, t, a) == Isqrt(MulDivFloor(d * d, Abs(t), Abs(a))) + 1

(* int(d * scale_factor) for d > 0 with scale_factor = math.sqrt(t / a),     *)
(* t > 0 and a > 0: floor(sqrt(d * d * t / a)), or what the doubles give     *)
(* where d * sqrt(t / a) is whole or beyond the exact integer arithmetic;    *)
(* where scale_factor itself is a whole number every operation is exact.     *)
ScalePositive(d, t, a) ==
    LET inrange == /\ d <= MaxRoot
                   /\ a <= MaxRoot
                   /\ t \div a < MaxInt \div (d * d)
        v == MulDivFloor(d * d, t, a)
        whole == MulMod(d * d, t, a) = 0
        n == Isqrt(v)
        ratio == t \div a
        exact == t % a = 0 /\ Isqrt(ratio) * Isqrt(ratio) = ratio
    IN  IF inrange /\ (exact \/ ~(n > 0 /\ whole /\ n * n = v))
        THEN n
        ELSE IntOfFloat(FloatMul(FloatOfInt(d), FloatSqrt(Float(t, a))))

(* int(d * scale_factor) with scale_factor = math.sqrt(t / a), t / a >= 0    *)
(* (t and a of one sign, or t = 0): int() truncates towards zero, so a       *)
(* negative dimension keeps its sign.                                        *)
ScaleDim(d, t, a) ==
    IF d = 0 \/ t = 0 THEN 0
    ELSE IF d < 0 THEN -ScalePositive(-d, Abs(t), Abs(a))
    ELSE ScalePositive(d, Abs(t), Abs(a))

(* The scaling applied to the width only.                                    *)
ScaleRoomWidthOnly(r, t, a) ==
    [r EXCEPT !.width = ScaleDim(r.width, t, a)]

ScaleRoom(r, t, a) ==
    [r EXCEPT !.width = ScaleDim(r.width, t, a),
              !.length = ScaleDim(r.length, t, a)]

(* The scaling applied whenever total_sqft differs from total_area.          *)
ScaleRoomsWhenDifferent(rs, t) ==
    LET a == SumSqft(rs, 1)
    IN  IF t = a \/ a <= 0 \/ t < 0 THEN [rooms |-> rs, error |-> "none"]
        ELSE [rooms |-> [i \in 1..Len(rs) |->
                            [rs[i] EXCEPT
                               !.width = ScaleDim(rs[i].width, t, a),
                               !.length = ScaleDim(rs[i].length, t, a)]],
              error |-> "none"]

(* Lines 216-220: every room is scaled when total_sqft > total_area;         *)
(* total_sqft / total_area raises ZeroDivisionError for total_area = 0 and   *)
(* math.sqrt raises ValueError for a negative quotient.                      *)
ScaleRooms(rs, t) ==
    LET a == total_area(rs)
    IN  IF ~(t > a) THEN [rooms |-> rs, error |-> "none"]
        ELSE IF a = 0 THEN [rooms |-> rs, error |-> "ZeroDivisionError"]
        ELSE IF (t > 0 /\ a < 0) THEN [rooms |-> rs, error |-> "ValueError"]
        ELSE [rooms |-> [i \in 1..Len(rs) |-> ScaleRoom(rs[i], t, a)],
              error |-> "none"]

(* max_width = int(math.sqrt(total_sqft * 92903.04) * 1.3), total_sqft >= 0: *)
(* floor(sqrt(total_sqft * 9290304 * 13 * 13 / (100 * 10 * 10))), or what    *)
(* the doubles give where that root is whole or total_sqft is beyond         *)
(* ExactMaxWidthSqft.                                                        *)
max_width(t) ==
    LET v == MulDivFloor(t, SqftToMm2Times100 * 13 * 13, 100 * 10 * 10)
        whole == MulMod(t, SqftToMm2Times100 * 13 * 13, 100 * 10 * 10) = 0
        n == Isqrt(v)
    IN  IF t <= ExactMaxWidthSqft /\ ~(n > 0 /\ whole /\ n * n = v)
        THEN n
        ELSE IntOfFloat(FloatMul(FloatSqrt(area_mm2(t)), Float(13, 10)))

(* The row of a new room: "if current_x + room.length > max_width and        *)
(* current_x > 0" starts a new row.                                          *)
(* The new-row test without its "current_x > 0" half.                        *)
NewRowAlsoAtRowStart(cur, room, mw) == cur.x + room.length > mw

NewRow(cur, room, mw) == cur.x + room.length > mw /\ cur.x > 0

StartRow(cur, room, mw) ==
    IF NewRow(cur, room, mw)
    THEN [x |-> 0, y |-> cur.y + cur.row_height + GAP, row_height |-> 0]
    ELSE cur

Max(a, b) == IF a >= b THEN a ELSE b

(* Advance without the wall gap between neighbours in a row.                 *)
AdvanceNoGap(cur, room) ==
    [x |-> cur.x + room.length, y |-> cur.y,
     row_height |-> Max(cur.row_height, room.width)]

(* Advance keeping the last room's width as the height of the row.           *)
AdvanceLastWidth(cur, room) ==
    [x |-> cur.x + room.length + GAP, y |-> cur.y, row_height |-> room.width]

(* current_x += room.length + 200; row_height = max(row_height, room.width)  *)
Advance(cur, room) ==
    [x |-> cur.x + room.length + GAP, y |-> cur.y,
     row_height |-> Max(cur.row_height, room.width)]

(* The loop of lines 228-239 over order[k..], with the cursor cur.           *)
RECURSIVE PlaceFrom(_, _, _, _, _)
PlaceFrom(rs, order, k, cur, mw) ==
    IF k > Len(order) THEN rs
    ELSE LET i == order[k]
             at == StartRow(cur, rs[i], mw)
         IN  PlaceFrom([rs EXCEPT ![i].x = at.x, ![i].y = at.y],
                       order, k + 1, Advance(at, rs[i]), mw)

_arrange_rooms(req, rs) ==
    IF rs = <<>> THEN [rooms |-> rs, error |-> "none"]
    ELSE LET order == sorted_rooms(rs)
             scaled == ScaleRooms(rs, req.total_sqft)
         IN  IF scaled.error # "none" THEN scaled
             ELSE IF req.total_sqft < 0
             THEN [rooms |-> scaled.rooms, error |-> "ValueError"]
             ELSE [rooms |-> PlaceFrom(scaled.rooms, order, 1,
                                       [x |-> 0, y |-> 0, row_height |-> 0],
                                       max_width(req.total_sqft)),
                   error |-> "none"]

(* get_house_dimensions                                                      *)
RECURSIVE MaxExtent(_, _, _)
MaxExtent(rs, i, horizontal) ==
    LET e == IF horizontal THEN rs[i].x + rs[i].length
             ELSE rs[i].y + rs[i].width
    IN  IF i = Len(rs) THEN e ELSE Max(e, MaxExtent(rs, i + 1, horizontal))

(* get_house_dimensions without the margin.                                  *)
HouseDimensionsNoMargin(rs) ==
    IF rs = <<>> THEN <<DefaultLength, DefaultWidth>>
    ELSE <<MaxExtent(rs, 1, TRUE), MaxExtent(rs, 1, FALSE)>>

(* get_house_dimensions with empty extents in place of the default.          *)
HouseDimensionsNoDefault(rs) ==
    IF rs = <<>> THEN <<MARGIN, MARGIN>>
    ELSE <<MaxExtent(rs, 1, TRUE) + MARGIN, MaxExtent(rs, 1, FALSE) + MARGIN>>

get_house_dimensions(rs) ==
    IF rs = <<>> THEN <<DefaultLength, DefaultWidth>>
    ELSE <<MaxExtent(rs, 1, TRUE) + MARGIN, MaxExtent(rs, 1, FALSE) + MARGIN>>

(* generate_floor_plan: the rooms it leaves in self.rooms and the exception  *)
(* it raises, if any.                                                        *)
generate_floor_plan(req, rs) ==
    LET dimensioned == _calculate_room_dimensions(BuildRooms(req, rs))
    IN  IF dimensioned.error # "none" THEN dimensioned
        ELSE _arrange_rooms(req, dimensioned.rooms)

----------------------------------------------------------------------------
(* Requirements records                                                     *)

HouseRequirements(t, bed, bath, garage, special, types) ==
    [ total_sqft |-> t, bedrooms |-> bed, bathrooms |-> bath,
      garage_cars |-> garage, special_rooms |-> special,
      bathroom_types |-> types ]

(* Special-room tags: a special room of the catalog, four catalog            *)
(* categories the Builder also emits by itself, and a tag that is not in     *)
(* the catalog.                                                              *)
SpecialTags ==
    {"gameroom", "bedroom", "bathroom", "garage", "hallway", "attic"}
BathroomTypeTags == {"jack_and_jill", "ensuite"}

Distinct(seq) == \A i, j \in 1..Len(seq) : seq[i] = seq[j] => i = j

(* special_rooms: lists of distinct tags, as the parser builds them.         *)
TagLists ==
    UNION { { seq \in [1..n -> SpecialTags] : Distinct(seq) }
            : n \in 0..MaxSpecialRooms }

BuildRequirements ==
    { HouseRequirements(2000, bed, bath, garage, special, types) :
        bed \in -1..MaxBedrooms, bath \in -2..MaxBathQuarters,
        garage \in -1..MaxGarage, special \in TagLists,
        types \in SUBSET BathroomTypeTags }

(* The records of the whole-pipeline specification.                          *)
PlanSqft == {-1, 0, 1800, 3000}
PlanBedrooms == {0, 1, MaxBedrooms}
PlanBathrooms == {0, 4, 10, MaxBathQuarters}
PlanGarages == {0, 2, MaxGarage}
PlanSpecialRooms ==
    {<<>>, <<"gameroom">>, <<"attic", "mudroom">>, <<"bedroom", "garage">>,
     <<"den", "kitchen">>}
PlanBathroomTypes == {{}, {"jack_and_jill"}}

PlanRequirements ==
    { HouseRequirements(t, bed, bath, garage, special, types) :
        t \in PlanSqft, bed \in PlanBedrooms, bath \in PlanBathrooms,
        garage \in PlanGarages, special \in PlanSpecialRooms,
        types \in PlanBathroomTypes }

----------------------------------------------------------------------------
(* Spec: a generator and its public operations                              *)

Init ==
    /\ requirements \in PlanRequirements
    /\ rooms = <<>>
    /\ error = "none"
    /\ returned = <<>>
    /\ previous = <<>>
    /\ runs = 0
    /\ dims = <<>>
    /\ phase = "new"
    /\ input = <<>>
    /\ gens = <<>>
    /\ calls = <<>>
    /\ lists = <<>>

GenerateFloorPlan ==
    /\ runs < MaxRuns
    /\ LET result == generate_floor_plan(requirements, rooms)
       IN  /\ rooms' = result.rooms
           /\ error' = result.error
           /\ returned' = IF result.error = "none" THEN result.rooms ELSE <<>>
    /\ previous' = returned
    /\ runs' = runs + 1
    /\ dims' = <<>>
    /\ phase' = "generate_floor_plan"
    /\ input' = rooms
    /\ UNCHANGED <<requirements, gens, calls, lists>>

GetHouseDimensions ==
    /\ dims = <<>>
    /\ dims' = get_house_dimensions(rooms)
    /\ error' = "none"
    /\ UNCHANGED <<requirements, rooms, returned, previous, runs, phase, input,
                   gens, calls, lists>>

Next == GenerateFloorPlan \/ GetHouseDimensions

Spec == Init /\ [][Next]_vars

----------------------------------------------------------------------------
(* SpecBuild: the steps of the Room Inventory Builder, in the order          *)
(* generate_floor_plan calls them                                            *)

InitBuild ==
    /\ requirements \in BuildRequirements
    /\ rooms = <<>>
    /\ error = "none"
    /\ returned = <<>>
    /\ previous = <<>>
    /\ runs = 0
    /\ dims = <<>>
    /\ phase = "new"
    /\ input = <<>>
    /\ gens = <<>>
    /\ calls = <<>>
    /\ lists = <<>>

BuildStep(from, to, result) ==
    /\ phase = from
    /\ phase' = to
    /\ input' = rooms
    /\ rooms' = result
    /\ UNCHANGED <<requirements, error, returned, previous, runs, dims,
                   gens, calls, lists>>

AddBedrooms ==
    BuildStep("new", "_add_bedrooms",
              _add_bedrooms(requirements, ResetRooms(rooms)))
AddBathrooms ==
    BuildStep("_add_bedrooms", "_add_bathrooms",
              _add_bathrooms(requirements, rooms))
AddKitchen ==
    BuildStep("_add_bathrooms", "_add_kitchen",
              _add_kitchen(requirements, rooms))
AddLivingAreas ==
    BuildStep("_add_kitchen", "_add_living_areas",
              _add_living_areas(requirements, rooms))
AddGarage ==
    BuildStep("_add_living_areas", "_add_garage",
              _add_garage(requirements, rooms))
AddSpecialRooms ==
    BuildStep("_add_garage", "_add_special_rooms",
              _add_special_rooms(requirements, rooms))
AddCirculationSpaces ==
    BuildStep("_add_special_rooms", "_add_circulation_spaces",
              _add_circulation_spaces(requirements, rooms))

NextBuild ==
    \/ AddBedrooms
    \/ AddBathrooms
    \/ AddKitchen
    \/ AddLivingAreas
    \/ AddGarage
    \/ AddSpecialRooms
    \/ AddCirculationSpaces

SpecBuild == InitBuild /\ [][NextBuild]_vars

----------------------------------------------------------------------------
(* SpecPack: the Packer called on a room list of any content, as a caller    *)
(* that sets self.rooms and calls _arrange_rooms and get_house_dimensions    *)

PackSqft == {0, 4, 16}
PackRoomSqft == {1, 2}
PackRoomWidths == {100, 300}
PackRoomLengths == {200, 500}

PackRooms ==
    { [Room(Named("Room"), a, "bedroom") EXCEPT !.width = w, !.length = l] :
        a \in PackRoomSqft, w \in PackRoomWidths, l \in PackRoomLengths }

PackRoomLists == UNION { [1..n -> PackRooms] : n \in 0..MaxPackRooms }

InitPack ==
    /\ requirements \in
         { HouseRequirements(t, 3, 8, 2, <<>>, {}) : t \in PackSqft }
    /\ rooms \in PackRoomLists
    /\ error = "none"
    /\ returned = <<>>
    /\ previous = <<>>
    /\ runs = 0
    /\ dims = <<>>
    /\ phase = "new"
    /\ input = <<>>
    /\ gens = <<>>
    /\ calls = <<>>
    /\ lists = <<>>

ArrangeRooms ==
    /\ phase = "new"
    /\ LET result == _arrange_rooms(requirements, rooms)
       IN  /\ rooms' = result.rooms
           /\ error' = result.error
    /\ phase' = "_arrange_rooms"
    /\ input' = rooms
    /\ UNCHANGED <<requirements, returned, previous, runs, dims, gens, calls,
                   lists>>

NextPack == ArrangeRooms \/ GetHouseDimensions

SpecPack == InitPack /\ [][NextPack]_vars

----------------------------------------------------------------------------
(* SpecDim: the Dimension Calculator and then the Packer, as                 *)
(* generate_floor_plan calls them (lines 78 and 81), on the Builder's        *)
(* inventory of a record or on a room list a caller has put in self.rooms    *)

(* Rooms of the catalog, of every aspect ratio and two of them of the same   *)
(* area (hallway, laundry), a room of area 0, a room of negative area, and   *)
(* two rooms where the value under int() is a whole number:                  *)
(* sqrt(300 * 92903.04 / 3.0) = 3048 for the hallway and                     *)
(* 1350 * 92903.04 / 9144 = 13716 for the garage.                            *)
DimCategories ==
    {"garage", "hallway", "master_bedroom", "kitchen", "laundry"}

DimRooms ==
    { Room(Named("Room"), room_sizes[c], c) : c \in DimCategories }
      \cup { Room(Named("Room"), 0, "bedroom"),
              Room(Named("Room"), -40, "hallway"),
              Room(Named("Room"), 300, "hallway"),
              Room(Named("Room"), 1350, "garage") }

DimRoomLists == UNION { [1..n -> DimRooms] : n \in 0..MaxDimRooms }

(* The inventory of the record of 4500 sq ft has 2420 sq ft, so its scale    *)
(* factor is 15 / 11; the garage of the last record (3750 sq ft) is a room   *)
(* where the values under int() are whole numbers that the doubles reach:    *)
(* it is 15240 by 22860.                                                     *)
DimRequirements ==
    { HouseRequirements(3000, 4, 16, 3, <<>>, {}),
      HouseRequirements(1800, 3, 8, 2, <<"mudroom">>, {}),
      HouseRequirements(4500, 4, 8, 3, <<>>, {}),
      HouseRequirements(3000, 1, 4, 15, <<>>, {}),
      HouseRequirements(200, 0, 0, 0, <<>>, {}) }

InitDim ==
    /\ requirements \in DimRequirements
    /\ rooms \in DimRoomLists \cup {BuildRooms(requirements, <<>>)}
    /\ error = "none"
    /\ returned = <<>>
    /\ previous = <<>>
    /\ runs = 0
    /\ dims = <<>>
    /\ phase = "new"
    /\ input = <<>>
    /\ gens = <<>>
    /\ calls = <<>>
    /\ lists = <<>>

CalculateRoomDimensions ==
    /\ phase = "new"
    /\ LET result == _calculate_room_dimensions(rooms)
       IN  /\ rooms' = result.rooms
           /\ error' = result.error
    /\ phase' = "_calculate_room_dimensions"
    /\ input' = rooms
    /\ UNCHANGED <<requirements, returned, previous, runs, dims, gens, calls,
                   lists>>

(* Line 81 is reached only when line 78 has not raised.                      *)
ArrangeDimensionedRooms ==
    /\ phase = "_calculate_room_dimensions"
    /\ error = "none"
    /\ LET result == _arrange_rooms(requirements, rooms)
       IN  /\ rooms' = result.rooms
           /\ error' = result.error
    /\ phase' = "_arrange_rooms"
    /\ input' = rooms
    /\ UNCHANGED <<requirements, returned, previous, runs, dims, gens, calls,
                   lists>>

NextDim == CalculateRoomDimensions \/ ArrangeDimensionedRooms

SpecDim == InitDim /\ [][NextDim]_vars

----------------------------------------------------------------------------
(* SpecCalls: two generate_floor_plan calls whose steps interleave, call     *)
(* "a" on generator "g" and call "b" on another generator "h".  The calls    *)
(* share no object that either of them writes, so the steps of one commute   *)
(* with the steps of the other, and a step is one statement of               *)
(* generate_floor_plan (lines 66-83): the reset of self.rooms, each _add_*   *)
(* call, _calculate_room_dimensions, _arrange_rooms and the return.          *)

CallIds == {"a", "b"}
GenIds == {"g", "h"}

CallRequirements ==
    { HouseRequirements(1800, 3, 8, 2, <<>>, {}),
      HouseRequirements(3000, 1, 4, 0, <<"gameroom">>, {}) }

(* FloorPlanGenerator.__init__: the attributes of a new generator.           *)
NewGenerator(req) ==
    [ requirements |-> req, room_sizes |-> room_sizes, rooms |-> <<>> ]

(* Every generator's attributes are those of generator "g".                  *)
SharedSelf(c) == "g"

(* self of the call c.                                                       *)
Self(c) == calls[c].self

SelfRooms(c) == gens[Self(c)].rooms
SelfRequirements(c) == gens[Self(c)].requirements

(* The generators ids, new, and the two calls not yet started, call "b" on   *)
(* the generator other.                                                      *)
InitCallsOn(ids, other) ==
    /\ gens \in [ids -> {NewGenerator(r) : r \in CallRequirements}]
    /\ calls = [c \in CallIds |->
                  [ self |-> IF c = "a" THEN "g" ELSE other, pc |-> "start",
                    error |-> "none", returned |-> <<>> ]]
    /\ input = gens
    /\ requirements = gens["g"].requirements
    /\ rooms = <<>>
    /\ error = "none"
    /\ returned = <<>>
    /\ previous = <<>>
    /\ runs = 0
    /\ dims = <<>>
    /\ phase = "new"
    /\ lists = <<>>

(* A statement of the call c that leaves result.rooms in self.rooms; the     *)
(* call ends there when the statement raises.                                *)
CallStep(c, from, to, result) ==
    /\ calls[c].pc = from
    /\ gens' = [gens EXCEPT ![Self(c)].rooms = result.rooms]
    /\ calls' = [calls EXCEPT
                   ![c].pc = IF result.error = "none" THEN to ELSE "raised",
                   ![c].error = result.error]
    /\ UNCHANGED <<requirements, rooms, error, returned, previous, runs,
                   dims, phase, input, lists>>

NoError(rs) == [rooms |-> rs, error |-> "none"]

CallResetRooms ==
    \E c \in CallIds :
        CallStep(c, "start", "reset", NoError(ResetRooms(SelfRooms(c))))
CallAddBedrooms ==
    \E c \in CallIds :
        CallStep(c, "reset", "_add_bedrooms",
                 NoError(_add_bedrooms(SelfRequirements(c), SelfRooms(c))))
CallAddBathrooms ==
    \E c \in CallIds :
        CallStep(c, "_add_bedrooms", "_add_bathrooms",
                 NoError(_add_bathrooms(SelfRequirements(c), SelfRooms(c))))
CallAddKitchen ==
    \E c \in CallIds :
        CallStep(c, "_add_bathrooms", "_add_kitchen",
                 NoError(_add_kitchen(SelfRequirements(c), SelfRooms(c))))
CallAddLivingAreas ==
    \E c \in CallIds :
        CallStep(c, "_add_kitchen", "_add_living_areas",
                 NoError(_add_living_areas(SelfRequirements(c),
                                           SelfRooms(c))))
CallAddGarage ==
    \E c \in CallIds :
        CallStep(c, "_add_living_areas", "_add_garage",
                 NoError(_add_garage(SelfRequirements(c), SelfRooms(c))))
CallAddSpecialRooms ==
    \E c \in CallIds :
        CallStep(c, "_add_garage", "_add_special_rooms",
                 NoError(_add_special_rooms(SelfRequirements(c),
                                            SelfRooms(c))))
CallAddCirculationSpaces ==
    \E c \in CallIds :
        CallStep(c, "_add_special_rooms", "_add_circulation_spaces",
                 NoError(_add_circulation_spaces(SelfRequirements(c),
                                                 SelfRooms(c))))
CallCalculateRoomDimensions ==
    \E c \in CallIds :
        CallStep(c, "_add_circulation_spaces", "_calculate_room_dimensions",
                 _calculate_room_dimensions(SelfRooms(c)))
CallArrangeRooms ==
    \E c \in CallIds :
        CallStep(c, "_calculate_room_dimensions", "_arrange_rooms",
                 _arrange_rooms(SelfRequirements(c), SelfRooms(c)))

(* return self.rooms                                                         *)
CallReturn ==
    \E c \in CallIds :
        /\ calls[c].pc = "_arrange_rooms"
        /\ calls' = [calls EXCEPT ![c].pc = "returned",
                                  ![c].returned = SelfRooms(c)]
        /\ UNCHANGED <<requirements, rooms, error, returned, previous, runs,
                       dims, phase, input, gens, lists>>

NextCalls ==
    \/ CallResetRooms
    \/ CallAddBedrooms
    \/ CallAddBathrooms
    \/ CallAddKitchen
    \/ CallAddLivingAreas
    \/ CallAddGarage
    \/ CallAddSpecialRooms
    \/ CallAddCirculationSpaces
    \/ CallCalculateRoomDimensions
    \/ CallArrangeRooms
    \/ CallReturn

InitCalls == InitCallsOn(GenIds, "h")

SpecCalls == InitCalls /\ [][NextCalls]_vars

----------------------------------------------------------------------------
(* SpecSameGenerator: two generate_floor_plan calls on ONE generator "g",    *)
(* each run by its own thread.  The calls read and write the attribute       *)
(* self.rooms, the lists it has referred to and the fields of the rooms in   *)
(* those lists, and no lock orders them: the outcome depends on where one    *)
(* call stands when the other one runs.  A step of a call is ONE access to   *)
(* that shared state (self.rooms read or assigned; a list appended to, read  *)
(* by an iterator, measured or copied; a room's width, length, x or y read   *)
(* or assigned) together with the local computation that follows it, up to   *)
(* the next access.  What no call writes (requirements, room_sizes, a room's *)
(* name, sqft and room_type) is read as part of the local computation.       *)
(*                                                                           *)
(* Objects have an identity: a list is known by the call whose line 66 made  *)
(* it ("init": the list of __init__, line 35), self.rooms holds the identity *)
(* of a list, and a room is known by its list and its position there (lists  *)
(* are only appended to, and a room is in one list only).                    *)
(*                                                                           *)
(* The interpreter may switch threads between any two steps, any number of   *)
(* times: NextSameGenerator lets either call take the next step in every     *)
(* state, and SpecSameGenerator holds every schedule of the two calls.       *)
(*                                                                           *)
(* A requirements record whose special_rooms attribute is None has no        *)
(* special_rooms field: "for room_type in self.requirements.special_rooms"   *)
(* (line 157) raises TypeError for it, after the rooms of _add_bedrooms to   *)
(* _add_garage have been appended.                                           *)

ListIds == {"init"} \cup CallIds

(* No room: the value of a local variable that is not in use.                *)
NoRoom == [list |-> "init", i |-> 0]

StartCursor == [x |-> 0, y |-> 0, row_height |-> 0]

(* A call that has not started: its position (pc: the line whose access      *)
(* comes next) and its local variables.                                      *)
NewCall ==
    [ self |-> "g", pc |-> "66", error |-> "none", returned |-> "none",
      k |-> 0, target |-> "none", it |-> NoRoom, room |-> NoRoom,
      value |-> 0, sorted_rooms |-> <<>>, total_area |-> 0,
      cur |-> StartCursor ]

(* One generator "g" made for a record of reqs, and two calls on it that     *)
(* have not started.                                                         *)
InitSameGeneratorOn(reqs) ==
    /\ gens \in [{"g"} -> { [NewGenerator(r) EXCEPT !.rooms = "init"] :
                               r \in reqs }]
    /\ lists = [l \in ListIds |-> <<>>]
    /\ calls = [c \in CallIds |-> NewCall]
    /\ input = gens
    /\ requirements = gens["g"].requirements
    /\ rooms = <<>>
    /\ error = "none"
    /\ returned = <<>>
    /\ previous = <<>>
    /\ runs = 0
    /\ dims = <<>>
    /\ phase = "new"

InitSameGenerator == InitSameGeneratorOn(CallRequirements)

(* The call c, at from, makes its next access: it leaves its thread with     *)
(* the local variables local, the lists heap, and self.rooms referring to    *)
(* the list bound.  The step is possible whenever the call stands at from,   *)
(* whatever the other call does.                                             *)
LineStep(c, from, local, heap, bound) ==
    /\ calls[c].pc = from
    /\ calls' = [calls EXCEPT ![c] = local]
    /\ lists' = heap
    /\ gens' = [gens EXCEPT ![Self(c)].rooms = bound]
    /\ UNCHANGED <<requirements, rooms, error, returned, previous, runs,
                   dims, phase, input>>

(* self.rooms, read.                                                         *)
Bound(c) == gens[Self(c)].rooms

(* The room object a reference refers to.                                    *)
RoomAt(ref) == lists[ref.list][ref.i]

(* The exception e ends the call c.                                          *)
Raise(c, e) == [calls[c] EXCEPT !.pc = "raised", !.error = e]

(* self.requirements.special_rooms is None.                                  *)
SpecialRoomsIsNone(req) == "special_rooms" \notin DOMAIN req

(* The exception that ends the Builder for the record req, or "none".        *)
BuilderError(req) == IF SpecialRoomsIsNone(req) THEN "TypeError" ELSE "none"

(* The rooms the Builder appends for the record req, in order, before it     *)
(* ends or raises: what a room is depends on the requirements and the        *)
(* catalog only.                                                             *)
BuilderRooms(req) ==
    IF SpecialRoomsIsNone(req)
    THEN _add_garage(req,
           _add_living_areas(req,
             _add_kitchen(req,
               _add_bathrooms(req,
                 _add_bedrooms(req, <<>>)))))
    ELSE BuildRooms(req, <<>>)

Inventory(c) == BuilderRooms(SelfRequirements(c))

(* The end of the Builder of call c: line 157 raises, or line 78 calls       *)
(* _calculate_room_dimensions.                                               *)
AfterBuilder(c) ==
    IF BuilderError(SelfRequirements(c)) # "none"
    THEN [Raise(c, BuilderError(SelfRequirements(c))) EXCEPT
            !.k = 0, !.target = "none"]
    ELSE [calls[c] EXCEPT !.pc = "178", !.k = 0, !.target = "none"]

(* Line 66: self.rooms = [], a new list.                                     *)
LineResetRooms ==
    \E c \in CallIds :
        LineStep(c, "66",
                 IF Inventory(c) = <<>> THEN AfterBuilder(c)
                 ELSE [calls[c] EXCEPT !.pc = "append_load", !.k = 1],
                 [lists EXCEPT ![c] = <<>>], c)

(* self.rooms.append(...) of the _add_* methods (lines 90-174): self.rooms   *)
(* is read ...                                                               *)
LineLoadRooms ==
    \E c \in CallIds :
        LineStep(c, "append_load",
                 [calls[c] EXCEPT !.pc = "append", !.target = Bound(c)],
                 lists, Bound(c))

(* ... and the room is appended to the list that was read.                   *)
LineAppend ==
    \E c \in CallIds :
        LineStep(c, "append",
                 IF calls[c].k < Len(Inventory(c))
                 THEN [calls[c] EXCEPT !.pc = "append_load", !.k = @ + 1,
                                       !.target = "none"]
                 ELSE AfterBuilder(c),
                 [lists EXCEPT ![calls[c].target] =
                                   Append(@, Inventory(c)[calls[c].k])],
                 Bound(c))

(* The start of a "for room in self.rooms" loop: self.rooms is read and an   *)
(* iterator over that list starts before its first room.                     *)
IterStep(c, from, to) ==
    LineStep(c, from,
             [calls[c] EXCEPT !.pc = to,
                              !.it = [list |-> Bound(c), i |-> 0]],
             lists, Bound(c))

(* The iterator of call c has a next room: it compares its position with     *)
(* the present length of its list.                                           *)
HasNext(c) == calls[c].it.i < Len(lists[calls[c].it.list])

NextRoom(c) == [list |-> calls[c].it.list, i |-> calls[c].it.i + 1]

(* Line 178: for room in self.rooms.                                         *)
CalcIter == \E c \in CallIds : IterStep(c, "178", "178_next")

(* Line 178, an iteration, and lines 180-198 up to math.sqrt, which raises   *)
(* ValueError for a negative area.                                           *)
CalcNext ==
    \E c \in CallIds :
        LineStep(c, "178_next",
                 IF HasNext(c)
                 THEN IF RoomAt(NextRoom(c)).sqft < 0
                      THEN Raise(c, "ValueError")
                      ELSE [calls[c] EXCEPT !.pc = "198",
                                            !.it = NextRoom(c),
                                            !.room = NextRoom(c)]
                 ELSE [calls[c] EXCEPT !.pc = "203", !.it = NoRoom,
                                       !.room = NoRoom],
                 lists, Bound(c))

(* Line 198: room.width = ...                                                *)
CalcWidth ==
    \E c \in CallIds :
        LET ref == calls[c].room
        IN  LineStep(c, "198", [calls[c] EXCEPT !.pc = "199_read"],
                     [lists EXCEPT ![ref.list][ref.i].width =
                         RoomWidth(RoomAt(ref).sqft, RoomAt(ref).room_type)],
                     Bound(c))

(* Line 199: room.width is read, and the division by it raises               *)
(* ZeroDivisionError for 0 ...                                               *)
CalcReadWidth ==
    \E c \in CallIds :
        LineStep(c, "199_read",
                 IF RoomAt(calls[c].room).width = 0
                 THEN Raise(c, "ZeroDivisionError")
                 ELSE [calls[c] EXCEPT !.pc = "199_write",
                                       !.value = RoomAt(calls[c].room).width],
                 lists, Bound(c))

(* ... and room.length is assigned.                                          *)
CalcLength ==
    \E c \in CallIds :
        LET ref == calls[c].room
        IN  LineStep(c, "199_write",
                     [calls[c] EXCEPT !.pc = "178_next", !.value = 0],
                     [lists EXCEPT ![ref.list][ref.i].length =
                         RoomLength(RoomAt(ref).sqft, calls[c].value)],
                     Bound(c))

(* Line 203: "if not self.rooms": self.rooms is read ...                     *)
ArrangeLoad ==
    \E c \in CallIds :
        LineStep(c, "203",
                 [calls[c] EXCEPT !.pc = "203_len", !.target = Bound(c)],
                 lists, Bound(c))

(* ... and the list is measured: _arrange_rooms returns at line 204 when it  *)
(* is empty.                                                                 *)
ArrangeTest ==
    \E c \in CallIds :
        LineStep(c, "203_len",
                 [calls[c] EXCEPT
                    !.pc = IF lists[calls[c].target] = <<>> THEN "83"
                           ELSE "210",
                    !.target = "none"],
                 lists, Bound(c))

(* Line 210: sorted(self.rooms, ...): self.rooms is read ...                 *)
SortLoad ==
    \E c \in CallIds :
        LineStep(c, "210",
                 [calls[c] EXCEPT !.pc = "210_sorted", !.target = Bound(c)],
                 lists, Bound(c))

(* ... and the list is copied; the copy, a local list of the same rooms, is  *)
(* sorted by sqft.                                                           *)
SortRooms ==
    \E c \in CallIds :
        LET from == calls[c].target
            order == sorted_rooms(lists[from])
        IN  LineStep(c, "210_sorted",
                     [calls[c] EXCEPT
                        !.pc = "213", !.target = "none",
                        !.sorted_rooms = [k \in 1..Len(order) |->
                                            [list |-> from, i |-> order[k]]]],
                     lists, Bound(c))

(* Lines 223-228: the cursors, max_width (math.sqrt raises ValueError for a  *)
(* negative total_sqft) and the start of the loop over sorted_rooms.         *)
PackStart(c, local) ==
    IF SelfRequirements(c).total_sqft < 0 THEN Raise(c, "ValueError")
    ELSE [local EXCEPT !.pc = IF local.sorted_rooms = <<>> THEN "83"
                              ELSE "229",
                       !.k = IF local.sorted_rooms = <<>> THEN 0 ELSE 1,
                       !.it = NoRoom, !.room = NoRoom, !.cur = StartCursor]

(* Lines 216-217: the test and scale_factor, which is the root of            *)
(* total_sqft / total_area: the division raises ZeroDivisionError and        *)
(* math.sqrt ValueError.                                                     *)
AfterSum(c) ==
    LET t == SelfRequirements(c).total_sqft
        a == calls[c].total_area
    IN  IF ~(t > a) THEN PackStart(c, calls[c])
        ELSE IF a = 0 THEN Raise(c, "ZeroDivisionError")
        ELSE IF t > 0 /\ a < 0 THEN Raise(c, "ValueError")
        ELSE [calls[c] EXCEPT !.pc = "218", !.it = NoRoom]

(* Line 213: sum(r.sqft for r in self.rooms): self.rooms is read ...         *)
SumIter == \E c \in CallIds : IterStep(c, "213", "213_next")

(* ... and the generator yields the rooms of the list one by one.            *)
SumNext ==
    \E c \in CallIds :
        LineStep(c, "213_next",
                 IF HasNext(c)
                 THEN [calls[c] EXCEPT
                         !.it = NextRoom(c),
                         !.total_area = @ + RoomAt(NextRoom(c)).sqft]
                 ELSE AfterSum(c),
                 lists, Bound(c))

(* Line 218: for room in self.rooms.                                         *)
ScaleIter == \E c \in CallIds : IterStep(c, "218", "218_next")

ScaleNext ==
    \E c \in CallIds :
        LineStep(c, "218_next",
                 IF HasNext(c)
                 THEN [calls[c] EXCEPT !.pc = "219_read",
                                       !.it = NextRoom(c),
                                       !.room = NextRoom(c)]
                 ELSE PackStart(c, calls[c]),
                 lists, Bound(c))

(* Line 219: room.width is read ...                                          *)
ScaleReadWidth ==
    \E c \in CallIds :
        LineStep(c, "219_read",
                 [calls[c] EXCEPT !.pc = "219_write",
                                  !.value = RoomAt(calls[c].room).width],
                 lists, Bound(c))

(* ... and assigned.                                                         *)
ScaleWidth ==
    \E c \in CallIds :
        LET ref == calls[c].room
        IN  LineStep(c, "219_write",
                     [calls[c] EXCEPT !.pc = "220_read", !.value = 0],
                     [lists EXCEPT ![ref.list][ref.i].width =
                         ScaleDim(calls[c].value,
                                  SelfRequirements(c).total_sqft,
                                  calls[c].total_area)],
                     Bound(c))

(* Line 220: room.length is read ...                                         *)
ScaleReadLength ==
    \E c \in CallIds :
        LineStep(c, "220_read",
                 [calls[c] EXCEPT !.pc = "220_write",
                                  !.value = RoomAt(calls[c].room).length],
                 lists, Bound(c))

(* ... and assigned.                                                         *)
ScaleLength ==
    \E c \in CallIds :
        LET ref == calls[c].room
        IN  LineStep(c, "220_write",
                     [calls[c] EXCEPT !.pc = "218_next", !.value = 0],
                     [lists EXCEPT ![ref.list][ref.i].length =
                         ScaleDim(calls[c].value,
                                  SelfRequirements(c).total_sqft,
                                  calls[c].total_area)],
                     Bound(c))

(* The room of the present iteration of the loop over sorted_rooms.          *)
PackRoom(c) == calls[c].sorted_rooms[calls[c].k]

(* Lines 229-232: room.length is read for the new-row test.                  *)
PackTest ==
    \E c \in CallIds :
        LineStep(c, "229",
                 [calls[c] EXCEPT
                    !.pc = "235",
                    !.cur = StartRow(@, RoomAt(PackRoom(c)),
                                     max_width(SelfRequirements(c).total_sqft))],
                 lists, Bound(c))

(* Line 235: room.x = current_x                                              *)
PackX ==
    \E c \in CallIds :
        LET ref == PackRoom(c)
        IN  LineStep(c, "235", [calls[c] EXCEPT !.pc = "236"],
                     [lists EXCEPT ![ref.list][ref.i].x = calls[c].cur.x],
                     Bound(c))

(* Line 236: room.y = current_y                                              *)
PackY ==
    \E c \in CallIds :
        LET ref == PackRoom(c)
        IN  LineStep(c, "236", [calls[c] EXCEPT !.pc = "238"],
                     [lists EXCEPT ![ref.list][ref.i].y = calls[c].cur.y],
                     Bound(c))

(* Line 238: current_x += room.length + 200                                  *)
PackAdvance ==
    \E c \in CallIds :
        LineStep(c, "238",
                 [calls[c] EXCEPT
                    !.pc = "239",
                    !.cur.x = @ + RoomAt(PackRoom(c)).length + GAP],
                 lists, Bound(c))

(* Line 239: row_height = max(row_height, room.width), and the next room of  *)
(* sorted_rooms, if any.                                                     *)
PackRowHeight ==
    \E c \in CallIds :
        LET more == calls[c].k < Len(calls[c].sorted_rooms)
        IN  LineStep(c, "239",
                     [calls[c] EXCEPT
                        !.pc = IF more THEN "229" ELSE "83",
                        !.k = IF more THEN @ + 1 ELSE 0,
                        !.cur = IF more
                                THEN [@ EXCEPT !.row_height =
                                        Max(@, RoomAt(PackRoom(c)).width)]
                                ELSE StartCursor],
                     lists, Bound(c))

(* Line 83: return self.rooms: the caller gets the list self.rooms refers    *)
(* to, not a copy of it.                                                     *)
LineReturn ==
    \E c \in CallIds :
        LineStep(c, "83",
                 [calls[c] EXCEPT !.pc = "returned", !.returned = Bound(c),
                                  !.sorted_rooms = <<>>, !.total_area = 0],
                 lists, Bound(c))

NextSameGenerator ==
    \/ LineResetRooms
    \/ LineLoadRooms
    \/ LineAppend
    \/ CalcIter
    \/ CalcNext
    \/ CalcWidth
    \/ CalcReadWidth
    \/ CalcLength
    \/ ArrangeLoad
    \/ ArrangeTest
    \/ SortLoad
    \/ SortRooms
    \/ SumIter
    \/ SumNext
    \/ ScaleIter
    \/ ScaleNext
    \/ ScaleReadWidth
    \/ ScaleWidth
    \/ ScaleReadLength
    \/ ScaleLength
    \/ PackTest
    \/ PackX
    \/ PackY
    \/ PackAdvance
    \/ PackRowHeight
    \/ LineReturn

SpecSameGenerator == InitSameGenerator /\ [][NextSameGenerator]_vars

(* SpecSpecialRoomsNone: the two calls on a generator whose record has       *)
(* special_rooms = None.  Both calls end at line 157, so the steps of the    *)
(* Builder are the only steps of generate_floor_plan they take.              *)
WithoutSpecialRooms(req) ==
    [f \in DOMAIN req \ {"special_rooms"} |-> req[f]]

NoneRequirements ==
    { WithoutSpecialRooms(HouseRequirements(2000, 1, 4, 0, <<>>, {})),
      WithoutSpecialRooms(HouseRequirements(1800, 2, 6, 2, <<>>, {})) }

InitSpecialRoomsNone == InitSameGeneratorOn(NoneRequirements)

NextBuilder ==
    \/ LineResetRooms
    \/ LineLoadRooms
    \/ LineAppend

SpecSpecialRoomsNone == InitSpecialRoomsNone /\ [][NextBuilder]_vars

----------------------------------------------------------------------------
(* SpecLifecycle: the calls of SpecCalls, each on its own generator, and     *)
(* the read operations a caller makes on a generator whose call has          *)
(* returned.  A call that has started runs its statements to the return      *)
(* (the code has no loop that waits and no blocking call), which is the      *)
(* weak fairness of NextCalls; the read operations are the caller's choice.  *)

(* get_house_dimensions on the generator of a returned call.                 *)
CallGetHouseDimensions ==
    \E c \in CallIds :
        /\ calls[c].pc = "returned"
        /\ dims' = get_house_dimensions(SelfRooms(c))
        /\ phase' = "get_house_dimensions"
        /\ UNCHANGED <<requirements, rooms, error, returned, previous, runs,
                       input, gens, calls, lists>>

(* print_floor_plan on the generator of a returned call: it reads the rooms  *)
(* and writes to standard output only.                                       *)
CallPrintFloorPlan ==
    \E c \in CallIds :
        /\ calls[c].pc = "returned"
        /\ phase' = "print_floor_plan"
        /\ UNCHANGED <<requirements, rooms, error, returned, previous, runs,
                       dims, input, gens, calls, lists>>

NextLifecycle == NextCalls \/ CallGetHouseDimensions \/ CallPrintFloorPlan

(* A started call runs on: the interpreter executes the next statement of    *)
(* generate_floor_plan until the call returns or raises.  This is the weak  *)
(* fairness WF_vars(NextCalls) written out, a statement of a call being      *)
(* enabled exactly while some call has neither returned nor raised.          *)
CallFinished(c) == calls[c].pc \in {"returned", "raised"}

CallsRunOn ==
    \/ []<>(\A c \in CallIds : CallFinished(c))
    \/ []<><<NextCalls>>_vars

SpecLifecycle == InitCalls /\ [][NextLifecycle]_vars /\ CallsRunOn

----------------------------------------------------------------------------
(* Properties of the Packer (SpecPack)                                      *)

Packed == phase = "_arrange_rooms" /\ error = "none"

Positions == 1..Len(rooms)

(* Room i is placed before room j: larger sqft, or equal sqft and earlier.   *)
PlacedBefore(i, j) ==
    \/ rooms[i].sqft > rooms[j].sqft
    \/ rooms[i].sqft = rooms[j].sqft /\ i < j

(* C1: after packing a list of rooms of positive width and length, of two    *)
(* distinct rooms with the same y the one placed later starts at             *)
(* x >= (x + length of the earlier one) + 200.                               *)
C1_RowNoOverlap ==
    Packed =>
        \A i, j \in Positions :
            (i # j /\ rooms[i].y = rooms[j].y /\ PlacedBefore(i, j))
                => rooms[j].x >= rooms[i].x + rooms[i].length + 200

C1_Witness ==
    /\ Packed
    /\ \E i, j \in Positions :
          /\ i # j
          /\ rooms[i].y = rooms[j].y
          /\ rooms[i].width > 0 /\ rooms[i].length > 0
          /\ rooms[j].width > 0 /\ rooms[j].length > 0

Overlap(r, s) ==
    /\ r.x < s.x + s.length /\ s.x < r.x + r.length
    /\ r.y < s.y + s.width /\ s.y < r.y + r.width

(* C2: after packing, a room s lower than a room r (r.y < s.y) has           *)
(* s.y >= r.y + r.width + 200, and no two rooms overlap as rectangles.       *)
C2_RowsSeparated ==
    Packed =>
        /\ \A i, j \in Positions :
              rooms[i].y < rooms[j].y
                  => rooms[j].y >= rooms[i].y + rooms[i].width + 200
        /\ \A i, j \in Positions : i # j => ~Overlap(rooms[i], rooms[j])

C2_Witness ==
    /\ Packed
    /\ \E i, j, k \in Positions :
          /\ i # j
          /\ rooms[i].y = rooms[j].y
          /\ rooms[i].width > rooms[j].width
          /\ rooms[i].x < rooms[j].x
          /\ rooms[k].y > rooms[i].y

(* C4: get_house_dimensions on an empty room list returns (10000, 8000) and  *)
(* raises nothing; _arrange_rooms on an empty room list raises nothing and   *)
(* leaves the list empty.                                                    *)
C4_EmptyRoomList ==
    /\ (rooms = <<>> /\ dims # <<>>)
          => (dims = <<10000, 8000>> /\ error = "none")
    /\ (phase = "_arrange_rooms" /\ input = <<>>)
          => (rooms = <<>> /\ error = "none")

C4_Witness ==
    /\ phase = "_arrange_rooms"
    /\ input = <<>>
    /\ rooms = <<>>
    /\ dims = <<10000, 8000>>

----------------------------------------------------------------------------
(* Properties of the generator (Spec)                                       *)

(* C3: after generate_floor_plan, get_house_dimensions returns (L, W) with   *)
(* L - 1000 the largest x + length and W - 1000 the largest y + width of a   *)
(* room, so every room lies in [0, L - 1000] x [0, W - 1000].                *)
C3_HouseDimensions ==
    (runs >= 1 /\ dims # <<>>) =>
        /\ \A i \in Positions :
              /\ rooms[i].x >= 0
              /\ rooms[i].y >= 0
              /\ rooms[i].x + rooms[i].length <= dims[1] - 1000
              /\ rooms[i].y + rooms[i].width <= dims[2] - 1000
        /\ \E i \in Positions : rooms[i].x + rooms[i].length = dims[1] - 1000
        /\ \E i \in Positions : rooms[i].y + rooms[i].width = dims[2] - 1000

C3_Witness ==
    /\ runs >= 1
    /\ dims # <<>>
    /\ returned # <<>>
    /\ \E i, j \in Positions : rooms[i].y > 0 /\ rooms[j].x > 0

(* C5: a second generate_floor_plan run on the same generator returns a      *)
(* room sequence equal to the first in length, order and every field; the    *)
(* rooms of the first run do not accumulate.                                 *)
C5_Repeatable ==
    /\ runs >= 2 => returned = previous
    /\ (runs >= 1 /\ returned # <<>>) => rooms = returned

C5_Witness ==
    /\ runs = 2
    /\ phase = "generate_floor_plan"
    /\ Len(returned) >= 6
    /\ returned = previous

----------------------------------------------------------------------------
(* Properties of the Room Inventory Builder (SpecBuild)                     *)

Built == phase = "_add_circulation_spaces"

(* The rooms the last step appended.                                         *)
Emitted == SubSeq(rooms, Len(input) + 1, Len(rooms))

OfCategory(seq, cats) == {i \in 1..Len(seq) : seq[i].room_type \in cats}

Tags == {requirements.special_rooms[i] :
            i \in 1..Len(requirements.special_rooms)}

(* The categories whose name contains "bedroom".                             *)
BedroomCategories == {"master_bedroom", "bedroom"}
BedroomInventory ==
    LET B == requirements.bedrooms
    IN  /\ Cardinality(OfCategory(rooms, BedroomCategories)) = B
        /\ Cardinality(OfCategory(rooms, {"master_bedroom"})) = 1
        /\ Cardinality(OfCategory(rooms, {"bedroom"})) = B - 1
        /\ {rooms[i].name : i \in OfCategory(rooms, {"bedroom"})}
               = {[text |-> "Bedroom #", num |-> k] : k \in 2..B}

(* C6 as stated: for bedroom_count = B >= 1 and any other fields, the room   *)
(* list has exactly B rooms of a bedroom category: one master_bedroom and    *)
(* B - 1 rooms of category bedroom named "Bedroom 2" .. "Bedroom B".         *)
C6_AnyRecord ==
    (Built /\ requirements.bedrooms >= 1) => BedroomInventory

(* C6 amended: the same, for records whose special_room_tags hold no         *)
(* bedroom category (neither "bedroom" nor "master_bedroom").                *)
C6_NoBedroomTag ==
    (Built /\ requirements.bedrooms >= 1 /\ Tags \cap BedroomCategories = {})
        => BedroomInventory

C6_Witness ==
    /\ Built
    /\ requirements.bedrooms = 3
    /\ requirements.special_rooms # <<>>
    /\ Tags \cap BedroomCategories = {}
    /\ Cardinality(OfCategory(rooms, BedroomCategories)) = 3

(* The bathroom categories of the catalog.                                   *)
BathroomCategories ==
    {"master_bathroom", "jack_and_jill_bathroom", "bathroom", "half_bathroom"}

(* The bathrooms of the room list for bathroom_count = n: exactly one        *)
(* master_bathroom, one jack_and_jill_bathroom iff "jack_and_jill" is        *)
(* requested and floor(n) >= 2, floor(n) - 1 - (that one) rooms of category  *)
(* bathroom numbered from 2, and one half_bathroom "Powder Room" iff the     *)
(* fractional part of n is >= 0.5.                                           *)
BathroomInventory ==
    LET n == requirements.bathrooms
        full == n \div 4
        jj == IF "jack_and_jill" \in requirements.bathroom_types /\ full >= 2
              THEN 1 ELSE 0
        half == IF 4 * full + 2 <= n THEN 1 ELSE 0
        numbered == OfCategory(rooms, {"bathroom"})
    IN  /\ Cardinality(OfCategory(rooms, {"master_bathroom"})) = 1
        /\ Cardinality(OfCategory(rooms, {"jack_and_jill_bathroom"})) = jj
        /\ Cardinality(numbered) = full - 1 - jj
        /\ {rooms[i].name : i \in numbered}
               = {[text |-> "Bathroom #", num |-> k] : k \in 2..(full - jj)}
        /\ Cardinality(OfCategory(rooms, {"half_bathroom"})) = half
        /\ \A i \in OfCategory(rooms, {"half_bathroom"}) :
               rooms[i].name = [text |-> "Powder Room", num |-> 0]

(* C7 as stated: for bathroom_count = n >= 1 the Builder emits exactly one   *)
(* master_bathroom, one jack_and_jill_bathroom iff "jack_and_jill" is        *)
(* requested and floor(n) >= 2, floor(n) - 1 - (that one) rooms of category  *)
(* bathroom numbered from 2, and one half_bathroom "Powder Room" iff the     *)
(* fractional part of n is >= 0.5, whatever the other fields are.            *)
C7_AnyRecord ==
    (Built /\ requirements.bathrooms >= 4) => BathroomInventory

(* C7 amended: the same, for records whose special_room_tags name no         *)
(* bathroom category (master_bathroom, jack_and_jill_bathroom, bathroom,     *)
(* half_bathroom).                                                           *)
C7_NoBathroomTag ==
    (/\ Built
     /\ requirements.bathrooms >= 4
     /\ Tags \cap BathroomCategories = {})
        => BathroomInventory

(* n = 4.0 with jack_and_jill and a special room: 1 master, 1 jack-and-jill, *)
(* 2 numbered, no powder room.                                               *)
C7_Witness ==
    /\ Built
    /\ requirements.bathrooms = 16
    /\ "jack_and_jill" \in requirements.bathroom_types
    /\ requirements.special_rooms = <<"gameroom", "garage">>
    /\ Cardinality(OfCategory(rooms, {"master_bathroom"})) = 1
    /\ Cardinality(OfCategory(rooms, {"jack_and_jill_bathroom"})) = 1
    /\ Cardinality(OfCategory(rooms, {"bathroom"})) = 2
    /\ Cardinality(OfCategory(rooms, {"half_bathroom"})) = 0

(* The garage of the room list: a garage room iff garage_capacity > 0, and   *)
(* then exactly one, of area 250 * garage_capacity, with 0 windows, named    *)
(* "<garage_capacity> Car Garage".                                           *)
GarageInventory ==
    LET cars == requirements.garage_cars
        garages == OfCategory(rooms, {"garage"})
    IN  /\ (garages # {}) <=> (cars > 0)
        /\ cars > 0 =>
              /\ Cardinality(garages) = 1
              /\ \A i \in garages :
                    /\ rooms[i].sqft = 250 * cars
                    /\ rooms[i].windows = 0
                    /\ rooms[i].name = [text |-> "# Car Garage", num |-> cars]

(* C9 as stated: the Builder emits a garage room iff garage_capacity > 0,    *)
(* and then exactly one, of area 250 * garage_capacity, with 0 windows,      *)
(* named "<garage_capacity> Car Garage", whatever the other fields are.      *)
C9_AnyRecord == Built => GarageInventory

(* C9 amended: the same, for records whose special_room_tags do not hold     *)
(* "garage".                                                                 *)
C9_NoGarageTag == (Built /\ "garage" \notin Tags) => GarageInventory

C9_Witness ==
    /\ Built
    /\ requirements.garage_cars = 3
    /\ requirements.special_rooms = <<"gameroom", "hallway">>
    /\ Cardinality(OfCategory(rooms, {"garage"})) = 1
    /\ \E i \in OfCategory(rooms, {"garage"}) : rooms[i].sqft = 750

(* The tags of a list that are keys of the catalog, in order.                *)
RECURSIVE KnownTags(_)
KnownTags(tags) ==
    IF tags = <<>> THEN <<>>
    ELSE (IF Head(tags) \in DOMAIN room_sizes THEN <<Head(tags)>> ELSE <<>>)
         \o KnownTags(Tail(tags))

(* C10: for every tag of special_room_tags that is a key of the catalog the  *)
(* special-room step emits exactly one room of that category, with the       *)
(* catalog area and 1 window; for a tag that is not in the catalog it emits  *)
(* nothing and raises nothing, and the inventory is the one of the record    *)
(* without that tag.                                                         *)
C10_SpecialRooms ==
    LET known == KnownTags(requirements.special_rooms)
    IN  /\ phase = "_add_special_rooms" =>
              /\ error = "none"
              /\ Len(Emitted) = Len(known)
              /\ \A k \in 1..Len(known) :
                    /\ Emitted[k].room_type = known[k]
                    /\ Emitted[k].sqft = room_sizes[known[k]]
                    /\ Emitted[k].windows = 1
              /\ \A t \in Tags :
                    Cardinality(OfCategory(Emitted, {t}))
                        = IF t \in DOMAIN room_sizes THEN 1 ELSE 0
        /\ Built =>
              rooms = BuildRooms([requirements EXCEPT !.special_rooms = known],
                                 <<>>)

C10_Witness ==
    /\ phase = "_add_special_rooms"
    /\ requirements.special_rooms = <<"attic", "gameroom">>
    /\ Len(Emitted) = 1
    /\ Emitted[1].room_type = "gameroom"
    /\ Emitted[1].sqft = 250

(* C8: for every requirements record, bedroom_count = 0 and                  *)
(* bathroom_count = 0 included, the room list generate_floor_plan leaves is  *)
(* non-empty and has a room of each of the categories master_bedroom,        *)
(* master_bathroom, kitchen, dining_room, living_room and foyer.             *)
C8_EssentialRooms ==
    runs >= 1 =>
        /\ rooms # <<>>
        /\ \A c \in {"master_bedroom", "master_bathroom", "kitchen",
                      "dining_room", "living_room", "foyer"} :
              \E i \in Positions : rooms[i].room_type = c
        /\ returned # <<>> => returned = rooms

C8_Witness ==
    /\ runs >= 1
    /\ requirements.bedrooms = 0
    /\ requirements.bathrooms = 0
    /\ returned # <<>>
    /\ \E i \in 1..Len(returned) : returned[i].room_type = "master_bedroom"

Hallways(seq) == OfCategory(seq, {"hallway"})

(* The hallway of the room list: a hallway room, with 0 windows and the      *)
(* catalog area 50, exactly when bedroom_count >= 3, and never more than     *)
(* one.                                                                      *)
HallwayInventory ==
    /\ Cardinality(Hallways(rooms)) <= 1
    /\ Cardinality(Hallways(rooms)) = 1 <=> requirements.bedrooms >= 3
    /\ \A i \in Hallways(rooms) :
          /\ rooms[i].windows = 0
          /\ rooms[i].sqft = 50

(* C11 as stated: the Builder emits a hallway room (0 windows, catalog area  *)
(* 50) iff bedroom_count >= 3, and never more than one, whatever the other   *)
(* fields are.                                                               *)
C11_AnyRecord == Built => HallwayInventory

(* C11 amended: the same, for records whose special_room_tags do not hold    *)
(* "hallway".                                                                *)
C11_NoHallwayTag == (Built /\ "hallway" \notin Tags) => HallwayInventory

C11_Witness ==
    /\ Built
    /\ requirements.bedrooms = 3
    /\ requirements.special_rooms = <<"garage", "gameroom">>
    /\ Cardinality(Hallways(rooms)) = 1
    /\ rooms[Len(rooms)].room_type = "hallway"
    /\ rooms[Len(rooms)].windows = 0
    /\ rooms[Len(rooms)].sqft = 50

(* C16: generate_floor_plan followed by get_house_dimensions raises no       *)
(* exception, whatever the requirements record, total_target_area or a       *)
(* count zero or negative included.                                          *)
C16_NoException == error = "none"

(* C17: a negative bedroom_count, bathroom_count or garage_capacity is       *)
(* treated as zero: the Builder's inventory is the inventory of the record   *)
(* with that field replaced by 0.                                            *)
NegativeAsZero(n) == IF n < 0 THEN 0 ELSE n

CountsClamped(req) ==
    [req EXCEPT !.bedrooms = NegativeAsZero(req.bedrooms),
                !.bathrooms = NegativeAsZero(req.bathrooms),
                !.garage_cars = NegativeAsZero(req.garage_cars)]

C17_NegativeCountAsZero ==
    Built => rooms = BuildRooms(CountsClamped(requirements), <<>>)

----------------------------------------------------------------------------
(* Properties of the Dimension Calculator and of the scaling (SpecDim)      *)

(* a / b <= c / d for a, c >= 0 and b, d > 0, by continued fractions, so     *)
(* that no product of the four numbers is formed.                            *)
RECURSIVE FracLeq(_, _, _, _)
FracLeq(a, b, c, d) ==
    IF (a \div b) # (c \div d) THEN (a \div b) < (c \div d)
    ELSE IF a % b = 0 THEN TRUE
    ELSE IF c % d = 0 THEN FALSE
    ELSE FracLeq(d, c % d, b, a % b)

Dimensioned == phase = "_calculate_room_dimensions" /\ error = "none"

(* The ratio r of the claim, as numerator and denominator.                   *)
RatioOf(category) ==
    CASE category = "garage" -> [num |-> 15, den |-> 10]
      [] category \in {"hallway", "mudroom"} -> [num |-> 30, den |-> 10]
      [] category \in {"master_bedroom", "living_room"} ->
            [num |-> 12, den |-> 10]
      [] OTHER -> [num |-> 13, den |-> 10]

(* width * width <= A / r < (width + 1) * (width + 1), A = sqft * 92903.04.  *)
WidthIsFloorSqrt(r) ==
    LET ratio == RatioOf(r.room_type)
    IN  /\ FracLeq(r.width * r.width, r.sqft * ratio.den,
                   SqftToMm2Times100, 100 * ratio.num)
        /\ ~FracLeq((r.width + 1) * (r.width + 1), r.sqft * ratio.den,
                    SqftToMm2Times100, 100 * ratio.num)

(* length <= A / width < length + 1.                                         *)
LengthIsFloorQuotient(r) ==
    /\ r.width > 0
    /\ FracLeq(r.length, r.sqft, SqftToMm2Times100, 100 * r.width)
    /\ ~FracLeq(r.length + 1, r.sqft, SqftToMm2Times100, 100 * r.width)

(* 0 <= A - width * length < width.                                          *)
AreaWithinOneWidth(r) ==
    /\ FracLeq(r.width * r.length, r.sqft, SqftToMm2Times100, 100)
    /\ ~FracLeq(r.width * r.length + r.width, r.sqft,
                SqftToMm2Times100, 100)

(* C12: for every room of positive target_area the Dimension Calculator      *)
(* sets width = floor(sqrt(A / r)) and length = floor(A / width), with       *)
(* A = target_area * 92903.04 and r = 1.5 for garage, 3.0 for hallway and    *)
(* mudroom, 1.2 for master_bedroom and living_room, 1.3 otherwise; hence     *)
(* 0 <= A - width * length < width.  The code's doubles break it where       *)
(* sqrt(A / r) or A / width is a whole number: a hallway of 300 sq ft gets   *)
(* width 3047, not 3048, and a garage of 1350 sq ft length 13715, not 13716. *)
C12_Dimensions ==
    Dimensioned =>
        \A i \in Positions :
            rooms[i].sqft > 0 =>
                /\ WidthIsFloorSqrt(rooms[i])
                /\ LengthIsFloorQuotient(rooms[i])
                /\ AreaWithinOneWidth(rooms[i])

(* The sum of the nominal target areas of a room list.                       *)
RECURSIVE NominalSumFrom(_, _)
NominalSumFrom(seq, i) ==
    IF i > Len(seq) THEN 0 ELSE seq[i].sqft + NominalSumFrom(seq, i + 1)

NominalSum == NominalSumFrom(rooms, 1)

Scaled == requirements.total_sqft > NominalSum

(* scale * scale, as numerator and denominator.                              *)
ScaleSquared ==
    IF Scaled THEN [num |-> requirements.total_sqft, den |-> NominalSum]
    ELSE [num |-> 1, den |-> 1]

(* n <= target_area * 92903.04 * scale^2 for the room r.                     *)
AtMostScaledArea(n, r) ==
    FracLeq(n, r.sqft * ScaleSquared.num,
            SqftToMm2Times100, 100 * ScaleSquared.den)

(* target_area * 92903.04 * scale^2 <= n for the room r.                     *)
AtLeastScaledArea(n, r) ==
    FracLeq(SqftToMm2Times100, 100 * ScaleSquared.den,
            n, r.sqft * ScaleSquared.num)

WithinOneWidthUnit(r) ==
    /\ ~AtLeastScaledArea(r.width * r.length - r.width, r)
    /\ ~AtMostScaledArea(r.width * r.length + r.width, r)

(* C13 as stated: after packing, width * length of every room differs from   *)
(* target_area * 92903.04 * scale^2 by less than one width unit.             *)
C13_WithinOneWidthUnit ==
    Packed => \A i \in Positions : WithinOneWidthUnit(rooms[i])

(* C13: after packing, width * length of every room is at most               *)
(* target_area * 92903.04 * scale^2; it is at most one width unit short of   *)
(* it when scale = 1, and less than                                          *)
(* (2 + floor(total_target_area / sum)) * (width + length) short of it when  *)
(* the rooms were scaled.                                                    *)
C13_AreaAfterPacking ==
    Packed =>
        \A i \in Positions :
            LET r == rooms[i]
                area == r.width * r.length
                slack == (2 + requirements.total_sqft \div NominalSum)
                            * (r.width + r.length)
            IN  /\ AtMostScaledArea(area, r)
                /\ Scaled => ~AtMostScaledArea(area + slack, r)
                /\ ~Scaled => AtLeastScaledArea(area + r.width, r)

C13_Witness ==
    /\ Packed
    /\ requirements.total_sqft = 3000
    /\ NominalSum = 2500
    /\ \E i \in Positions :
          /\ rooms[i].sqft = 300
          /\ rooms[i].width = 5278
          /\ rooms[i].length = 6334
          /\ AtMostScaledArea(rooms[i].width * rooms[i].length
                                 + rooms[i].width, rooms[i])

(* The rooms as the Dimension Calculator left them, and their nominal sum.   *)
InputSum == NominalSumFrom(input, 1)

ScaledByPacker ==
    Packed /\ rooms # <<>> /\ requirements.total_sqft > InputSum

(* after = before * scale exactly, squared: after^2 * sum = before^2 * total *)
ExactlyScaled(before, after) ==
    /\ FracLeq(after * after, before * before,
               requirements.total_sqft, InputSum)
    /\ FracLeq(requirements.total_sqft, InputSum,
               after * after, before * before)

(* after <= before * scale <= after + 1.                                     *)
ScaledAndTruncated(before, after) ==
    /\ FracLeq(after * after, before * before,
               requirements.total_sqft, InputSum)
    /\ FracLeq(requirements.total_sqft, InputSum,
               (after + 1) * (after + 1), before * before)

(* C14 as stated: when total_target_area exceeds the sum of the nominal      *)
(* areas, every width and every length grows by exactly the factor           *)
(* scale = sqrt(total_target_area / sum), and length / width is preserved.   *)
C14_ExactFactor ==
    ScaledByPacker =>
        \A i \in Positions :
            /\ ExactlyScaled(input[i].width, rooms[i].width)
            /\ ExactlyScaled(input[i].length, rooms[i].length)
            /\ rooms[i].length * input[i].width
                  = input[i].length * rooms[i].width

(* C14: when total_target_area exceeds the sum of the nominal areas, the     *)
(* Packer replaces every width and every length by a whole number that is    *)
(* at most dimension * scale and at most 1 below it, with the one factor     *)
(* scale = sqrt(total_target_area / sum); length / width is preserved up to  *)
(* that truncation.                                                          *)
C14_TruncatedFactor ==
    ScaledByPacker =>
        /\ Len(rooms) = Len(input)
        /\ \A i \in Positions :
              LET cross == rooms[i].length * input[i].width
                              - input[i].length * rooms[i].width
              IN  /\ ScaledAndTruncated(input[i].width, rooms[i].width)
                  /\ ScaledAndTruncated(input[i].length, rooms[i].length)
                  /\ -input[i].width <= cross
                  /\ cross <= input[i].length

(* The scale factor is 15 / 11: the width 2673 * 15 / 11 = 3645 comes out    *)
(* as 3644 and the length 3475 * 15 / 11 = 4738.6 as 4738.                   *)
C14_Witness ==
    /\ ScaledByPacker
    /\ requirements.total_sqft = 4500
    /\ InputSum = 2420
    /\ \E i \in Positions :
          /\ input[i].width = 2673
          /\ input[i].length = 3475
          /\ rooms[i].width = 3644
          /\ rooms[i].length = 4738
    /\ \E i \in Positions :
          /\ input[i].width = 4819
          /\ input[i].length = 5783
          /\ rooms[i].width = 6571
          /\ rooms[i].length = 7885

(* C15: when the sum of the nominal areas is at least total_target_area,     *)
(* the Packer leaves every width and length as the Dimension Calculator set  *)
(* them; only x and y are assigned.                                          *)
C15_NoScaling ==
    (Packed /\ InputSum >= requirements.total_sqft) =>
        /\ Len(rooms) = Len(input)
        /\ \A i \in Positions :
              rooms[i] = [input[i] EXCEPT !.x = rooms[i].x,
                                          !.y = rooms[i].y]

C15_Witness ==
    /\ Packed
    /\ InputSum > requirements.total_sqft
    /\ \E i \in Positions :
          /\ rooms[i].x > 0
          /\ rooms[i].width = input[i].width
          /\ rooms[i].length = input[i].length
          /\ rooms[i].width > 0
    /\ \E i \in Positions : rooms[i].y > 0

(* C18: for a room of target_area 0 the Dimension Calculator sets            *)
(* width = 0 and length = 0 and raises nothing, and the Packer then places   *)
(* the room and finishes without error.                                      *)
C18_ZeroAreaRoom ==
    phase \in {"_calculate_room_dimensions", "_arrange_rooms"} =>
        /\ error = "none"
        /\ \A i \in Positions :
              rooms[i].sqft = 0 =>
                  rooms[i].width = 0 /\ rooms[i].length = 0

----------------------------------------------------------------------------
(* Properties of interleaved calls (SpecCalls)                              *)

(* What the call c returns when it runs alone on a new generator.            *)
RunAlone(c) ==
    generate_floor_plan(input[calls[c].self].requirements, <<>>).rooms

OnDistinctGenerators == calls["a"].self # calls["b"].self

(* C19: when the steps of two generate_floor_plan calls on two different     *)
(* generators interleave, each call returns the room sequence it returns     *)
(* when run alone, and no step writes the catalog or the requirements        *)
(* record of a generator.                                                    *)
C19_IndependentGenerators ==
    /\ \A g \in DOMAIN gens :
          /\ gens[g].requirements = input[g].requirements
          /\ gens[g].room_sizes = room_sizes
    /\ OnDistinctGenerators =>
          \A c \in DOMAIN calls :
              calls[c].pc = "returned" => calls[c].returned = RunAlone(c)

C19_Witness ==
    /\ calls # <<>>
    /\ OnDistinctGenerators
    /\ gens["g"].requirements = gens["h"].requirements
    /\ calls["a"].pc = "returned"
    /\ calls["b"].pc = "_add_kitchen"
    /\ Len(calls["a"].returned) > Len(gens["h"].rooms)
    /\ gens["h"].rooms # <<>>

----------------------------------------------------------------------------
(* Properties of the generated room list (Spec)                             *)

NamesDistinct ==
    \A i, j \in Positions : rooms[i].name = rooms[j].name => i = j

(* The categories whose room the Builder emits by itself under the name a    *)
(* special room of that category gets.                                       *)
SelfNamedCategories ==
    {"master_bedroom", "master_bathroom", "kitchen", "dining_room",
     "living_room", "foyer", "hallway"}

(* C21 as stated: in every generated room list the room names are pairwise   *)
(* distinct, whatever the requirements record.                               *)
C21_AnyTags == runs >= 1 => NamesDistinct

(* C21: in every generated room list the room names are pairwise distinct,   *)
(* for every requirements record whose special_room_tags are pairwise        *)
(* distinct and name none of master_bedroom, master_bathroom, kitchen,       *)
(* dining_room, living_room, foyer and hallway.                              *)
C21_DistinctNames ==
    (/\ runs >= 1
     /\ Distinct(requirements.special_rooms)
     /\ Tags \cap SelfNamedCategories = {}) => NamesDistinct

C21_Witness ==
    /\ runs >= 1
    /\ requirements.special_rooms = <<"bedroom", "garage">>
    /\ requirements.bedrooms = MaxBedrooms
    /\ requirements.garage_cars = 2
    /\ Cardinality({rooms[i].name : i \in Positions}) = Len(rooms)
    /\ \E i, j \in Positions :
          /\ rooms[i].name = [text |-> "Bedroom #", num |-> MaxBedrooms]
          /\ rooms[j].name = [text |-> "Bedroom", num |-> 0]

----------------------------------------------------------------------------
(* Properties of the order of placement                                     *)

(* The exchanges of two positions of a list of n rooms; every other order    *)
(* of the list is reached by a sequence of them.                             *)
Exchanges(n) ==
    { [k \in 1..n |-> IF k = i THEN j ELSE IF k = j THEN i ELSE k] :
        i \in 1..n, j \in 1..n }

(* The Packer's result on the dimensioned rooms given in the order p.        *)
PackedInOrder(p) ==
    _arrange_rooms(requirements, [k \in 1..Len(input) |-> input[p[k]]]).rooms

SameGeometry(a, b) ==
    /\ a.x = b.x
    /\ a.y = b.y
    /\ a.width = b.width
    /\ a.length = b.length

SameLayoutInEveryOrder ==
    \A p \in Exchanges(Len(input)) :
        \A k \in 1..Len(input) :
            SameGeometry(PackedInOrder(p)[k], rooms[p[k]])

AreasDistinct ==
    \A i, j \in 1..Len(input) : input[i].sqft = input[j].sqft => i = j

(* A set of rooms: no two of them are alike in every field.                  *)
RoomsDistinct == \A i, j \in 1..Len(input) : input[i] = input[j] => i = j

(* C22 as stated: the same set of dimensioned rooms given to the Packer in   *)
(* two different orders get the same x, y, width and length.                 *)
C22_AnyOrder ==
    (Packed /\ input # <<>> /\ RoomsDistinct) => SameLayoutInEveryOrder

(* C22: dimensioned rooms of pairwise distinct target_area get the same x,   *)
(* y, width and length in whatever order they are given to the Packer.       *)
C22_DistinctAreas ==
    (Packed /\ input # <<>> /\ AreasDistinct) => SameLayoutInEveryOrder

C22_Witness ==
    /\ Packed
    /\ Len(input) = 2
    /\ input[1].sqft < input[2].sqft
    /\ rooms[2].x = 0
    /\ rooms[2].y = 0
    /\ (rooms[1].x > 0 \/ rooms[1].y > 0)
    /\ SameGeometry(PackedInOrder(<<2, 1>>)[1], rooms[2])
    /\ SameGeometry(PackedInOrder(<<2, 1>>)[2], rooms[1])

(* C23: the Packer places rooms in stable descending order of target_area:   *)
(* a room of larger target_area, or of equal target_area and emitted         *)
(* earlier, is in an earlier row, or in the same row at a smaller x; the     *)
(* first room of that order is at (0, 0).                                    *)
C23_PlacementOrder ==
    Packed =>
        /\ \A i, j \in Positions :
              (i # j /\ PlacedBefore(i, j)) =>
                  \/ rooms[i].y < rooms[j].y
                  \/ rooms[i].y = rooms[j].y /\ rooms[i].x < rooms[j].x
        /\ \A i \in Positions :
              (\A j \in Positions \ {i} : PlacedBefore(i, j)) =>
                  rooms[i].x = 0 /\ rooms[i].y = 0

C23_Witness ==
    /\ Packed
    /\ Len(rooms) = 3
    /\ rooms[1].sqft < rooms[2].sqft
    /\ rooms[2].sqft = rooms[3].sqft
    /\ rooms[2].x = 0 /\ rooms[2].y = 0
    /\ rooms[3].y = 0 /\ rooms[3].x > 0
    /\ rooms[1].y > 0

----------------------------------------------------------------------------
(* Row-width bound of the Packer (SpecPack)                                 *)

(* m = floor(sqrt(total_sqft * 92903.04) * 1.3), that is                     *)
(* m * m <= total_sqft * 92903.04 * 1.69 < (m + 1) * (m + 1).                *)
IsMaxRowWidth(m) ==
    LET t == requirements.total_sqft
    IN  IF t = 0 THEN m = 0
        ELSE /\ FracLeq(m * m, t, SqftToMm2Times100 * 169, 10000)
             /\ ~FracLeq((m + 1) * (m + 1), t,
                         SqftToMm2Times100 * 169, 10000)

(* The rooms of the row at y, and the largest width among them.              *)
RowAt(y) == {i \in Positions : rooms[i].y = y}
RowHeightAt(y) ==
    CHOOSE h \in {rooms[i].width : i \in RowAt(y)} :
        \A i \in RowAt(y) : rooms[i].width <= h

(* C25: with max_row_width = floor(sqrt(total_target_area * 92903.04) *      *)
(* 1.3), every room placed at x > 0 ends at x + length <= max_row_width, and *)
(* no row is empty: the first row is at y = 0 and every other row starts     *)
(* 200 below the largest width of a row that holds a room.                   *)
C25_RowWidthBound ==
    (Packed /\ rooms # <<>>) =>
        /\ IsMaxRowWidth(max_width(requirements.total_sqft))
        /\ \A i \in Positions :
              rooms[i].x > 0 =>
                  rooms[i].x + rooms[i].length
                      <= max_width(requirements.total_sqft)
        /\ RowAt(0) # {}
        /\ \A j \in Positions :
              \E i \in Positions :
                  rooms[i].x = 0 /\ rooms[i].y = rooms[j].y
        /\ \A j \in Positions :
              \/ rooms[j].y = 0
              \/ \E i \in Positions :
                    /\ rooms[i].y < rooms[j].y
                    /\ rooms[j].y = rooms[i].y + RowHeightAt(rooms[i].y) + GAP

C25_Witness ==
    /\ Packed
    /\ requirements.total_sqft = 4
    /\ max_width(requirements.total_sqft) = 792
    /\ \E i, j \in Positions :
          /\ rooms[i].x > 0
          /\ rooms[i].x + rooms[i].length <= 792
          /\ rooms[j].x = 0
          /\ rooms[j].y > 0
          /\ rooms[j].length = 500
          /\ rooms[i].y = 0

----------------------------------------------------------------------------
(* Properties of the pipeline (SpecLifecycle)                               *)

(* The stage a call is in: 0 not started, 1 Build (the reset and the _add_*  *)
(* steps), 2 Dimension, 3 Pack, 4 returned.                                  *)
StageOf(pc) ==
    CASE pc = "start" -> 0
      [] pc = "_calculate_room_dimensions" -> 2
      [] pc = "_arrange_rooms" -> 3
      [] pc = "returned" -> 4
      [] pc = "raised" -> 5
      [] OTHER -> 1

RoomsOfCall(c) == gens[calls[c].self].rooms

(* Before Dimension no room has a width, a length or a place; after          *)
(* Dimension and before Pack every room has a width and a length and no      *)
(* place yet.                                                                *)
FieldsInPipelineOrder ==
    \A c \in DOMAIN calls :
        \A i \in 1..Len(RoomsOfCall(c)) :
            LET r == RoomsOfCall(c)[i]
                stage == StageOf(calls[c].pc)
            IN  /\ stage <= 1 =>
                      r.width = 0 /\ r.length = 0 /\ r.x = 0 /\ r.y = 0
                /\ stage = 2 =>
                      r.width > 0 /\ r.length > 0 /\ r.x = 0 /\ r.y = 0
                /\ stage >= 3 => r.width > 0 /\ r.length > 0

(* A step moves a call within its stage or to the next stage, and a          *)
(* returned call and the rooms of its generator change no more.              *)
StagesInOrder ==
    \A c \in DOMAIN calls :
        /\ StageOf(calls'[c].pc) \in
              {StageOf(calls[c].pc), StageOf(calls[c].pc) + 1}
        /\ StageOf(calls'[c].pc) <= 4
        /\ calls[c].pc = "returned" =>
              /\ calls'[c] = calls[c]
              /\ gens'[calls[c].self] = gens[calls[c].self]

AllReturned ==
    /\ calls # <<>>
    /\ \A c \in DOMAIN calls : calls[c].pc = "returned"

(* C24: every generate_floor_plan run goes through Build, Dimension and      *)
(* Pack, each once and in that order, and returns; a room has its width and  *)
(* length from the Dimension Calculator before the Packer places it; after   *)
(* the return get_house_dimensions and print_floor_plan change no room and   *)
(* not the room list.                                                        *)
C24_Pipeline ==
    /\ []FieldsInPipelineOrder
    /\ [][StagesInOrder]_vars
    /\ <>AllReturned

C24_Witness ==
    /\ AllReturned
    /\ phase = "print_floor_plan"
    /\ dims # <<>>
    /\ \E i \in 1..Len(gens["g"].rooms) :
          /\ gens["g"].rooms[i].x > 0
          /\ gens["g"].rooms[i].width > 0
    /\ calls["a"].returned = gens["g"].rooms

====
